---- MODULE Spec2Model ----
(***************************************************************************)
(* Dense matrix decompositions of rulinalg (src/matrix/decomposition.rs),  *)
(* modelled over exact rational scalars.  A scalar T is a reduced fraction *)
(* <<num, den>> with den > 0; a Matrix is the record [rows, cols, data]    *)
(* with the flat row-major buffer of the source (0-based indices i, j      *)
(* address data[i*cols + j + 1]).                                          *)
(***************************************************************************)
EXTENDS Integers, Sequences, FiniteSets, TLC

\* pc:  position of the running call ("ready", a loop label, "done")
\* op:  the operation called
\* inp: the input matrix
\* st:  the locals of an operation modelled loop by loop
\* out: the result of the call
VARIABLES pc, op, inp, st, out

vars == <<pc, op, inp, st, out>>

(***************************************************************************)
(* Bounds of the model.                                                    *)
(***************************************************************************)
\* entries of the enumerated input matrices lie in -MaxVal..MaxVal
MaxVal == 1
\* largest dimension of the exhaustively enumerated square inputs
MaxN == 3
\* the rectangular inputs have entries 0, -3k, 4k for k in 1..MaxScale
MaxScale == 1
\* the rectangular inputs have at most MaxCells entries
MaxCells == 6
\* the least positive normal scalar is 1/MinPositiveInv: magnitudes below it
\* stand for the subnormal scalars
MinPositiveInv == 4
\* the inputs of svd have entries 0, 1, -1 and -3/(5s), 4/(5s) for s = SmallInv
SmallInv == 4
\* svd runs are followed for at most MaxIter Golub-Kahan steps
MaxIter == 3

(***************************************************************************)
(* Scalars (T: Float), exact.                                              *)
(***************************************************************************)
AbsI(a) == IF a < 0 THEN -a ELSE a

RECURSIVE Gcd(_, _)
Gcd(a, b) == IF b = 0 THEN a ELSE Gcd(b, a % b)

Sgn(a) == IF a < 0 THEN -1 ELSE IF a > 0 THEN 1 ELSE 0

NaN == <<0, 0>>

\* n/d with the common divisor g taken out and the sign carried by the numerator
RatG(n, d, g) == IF d < 0 THEN <<(-n) \div g, (-d) \div g>> ELSE <<n \div g, d \div g>>

\* the fraction n/d in lowest terms; a zero denominator gives the non-finite
\* values of the float type: <<1,0>> and <<-1,0>> are the infinities, <<0,0>> is NaN
Rat(n, d) == IF d = 0 THEN <<Sgn(n), 0>> ELSE RatG(n, d, Gcd(AbsI(n), AbsI(d)))

FromInt(k) == <<k, 1>>
Zero == <<0, 1>>
One == <<1, 1>>
\* T::one() + T::one(), and two + two
Two == <<2, 1>>
Four == <<4, 1>>

QNeg(x) == <<-x[1], x[2]>>
QAbs(x) == <<AbsI(x[1]), x[2]>>

\* x + y over the least common denominator; g is the gcd of the denominators
QAddG(x, y, g) == Rat(x[1] * (y[2] \div g) + y[1] * (x[2] \div g), (x[2] \div g) * y[2])

\* two infinities add up to themselves when they agree and to NaN otherwise
QAdd(x, y) ==
    IF x[2] = 0 /\ y[2] = 0 THEN (IF x = y THEN x ELSE NaN)
    ELSE IF x[2] = 0 THEN x
    ELSE IF y[2] = 0 THEN y
    ELSE QAddG(x, y, Gcd(x[2], y[2]))

QSub(x, y) == QAdd(x, QNeg(y))

\* x * y with the factors reduced crosswise by g1 and g2 before they are multiplied
QMulG(x, y, g1, g2) ==
    Rat((x[1] \div g1) * (y[1] \div g2), (x[2] \div g2) * (y[2] \div g1))

QMul(x, y) ==
    IF x[2] = 0 \/ y[2] = 0 THEN <<Sgn(x[1]) * Sgn(y[1]), 0>>
    ELSE QMulG(x, y, Gcd(AbsI(x[1]), y[2]), Gcd(AbsI(y[1]), x[2]))

\* x / 0 is an infinity (NaN for x = 0), x / infinity is zero for finite x
QDiv(x, y) ==
    IF x[2] # 0 /\ y[2] # 0 /\ y[1] # 0 THEN QMul(x, RatG(y[2], y[1], 1))
    ELSE IF y[2] = 0 THEN (IF x[2] = 0 \/ y = NaN THEN NaN ELSE Zero)
    ELSE IF y[1] = 0 THEN <<Sgn(x[1]), 0>>
    ELSE <<Sgn(x[1]) * Sgn(y[1]), 0>>

\* x < y for finite x and y; g is the gcd of the denominators
QLtG(x, y, g) == x[1] * (y[2] \div g) < y[1] * (x[2] \div g)

\* comparisons with NaN are false; an infinity compares by its sign
QLt(x, y) ==
    /\ x # NaN /\ y # NaN
    /\ IF x[2] # 0 /\ y[2] # 0 THEN QLtG(x, y, Gcd(x[2], y[2]))
       ELSE (IF x[2] = 0 THEN x[1] ELSE 0) < (IF y[2] = 0 THEN y[1] ELSE 0)
QLe(x, y) == x # NaN /\ y # NaN /\ (x = y \/ QLt(x, y))
is_finite(x) == x[2] # 0

\* the sign of x as a number: 0 for 0
signum_of_zero(x) ==
    IF x = NaN THEN NaN ELSE IF x[1] < 0 THEN QNeg(One) ELSE IF x[1] = 0 THEN Zero ELSE One

\* Float::signum: 1 for +0 and positive values, -1 for negative values, NaN for NaN
signum(x) == IF x = NaN THEN NaN ELSE IF x[1] < 0 THEN QNeg(One) ELSE One

RECURSIVE ISqrtIter(_, _)
ISqrtIter(n, x) ==
    LET y == (x + n \div x) \div 2
    IN  IF y >= x THEN x ELSE ISqrtIter(n, y)

\* the integer square root, rounded down
ISqrt(n) == IF n < 2 THEN n ELSE ISqrtIter(n, n)

IsSquare(n) == n >= 0 /\ ISqrt(n) * ISqrt(n) = n

\* Float::sqrt: exact on the square of a rational, otherwise a rounded (and, for
\* a positive argument, positive) value; NaN for a negative argument
sqrt(x) ==
    IF x[1] < 0 \/ x = NaN THEN NaN
    ELSE IF x[2] = 0 THEN x
    ELSE Rat(ISqrt(x[1]), ISqrt(x[2]))

\* the root of x is taken without rounding
ExactRoot(x) == x[2] # 0 /\ IsSquare(x[1]) /\ IsSquare(x[2])

\* sqrt(x) is the value the float operation returns: x is non-finite, negative
\* or the square of a rational
SqrtKnown(x) == ~is_finite(x) \/ x[1] < 0 \/ ExactRoot(x)

\* Float::hypot
hypot(a, b) == sqrt(QAdd(QMul(a, a), QMul(b, b)))

(***************************************************************************)
(* Matrix<T> and the operations of the matrix collaborator.                *)
(***************************************************************************)
Matrix(r, c, d) == [rows |-> r, cols |-> c, data |-> d]

Get(m, i, j) == m.data[i * m.cols + j + 1]

\* a matrix given entry-wise
MatOf(r, c, F(_, _)) ==
    Matrix(r, c, [idx \in 1..(r * c) |-> F((idx - 1) \div c, (idx - 1) % c)])

identity(n) == MatOf(n, n, LAMBDA i, j : IF i = j THEN One ELSE Zero)
zeros(r, c) == MatOf(r, c, LAMBDA i, j : Zero)
transpose(m) == MatOf(m.cols, m.rows, LAMBDA i, j : Get(m, j, i))

RECURSIVE SumTo(_, _)
\* F(0) + ... + F(k-1), accumulated left to right from zero
SumTo(F(_), k) == IF k = 0 THEN Zero ELSE QAdd(SumTo(F, k - 1), F(k - 1))

MatMul(a, b) ==
    MatOf(a.rows, b.cols,
          LAMBDA i, j : SumTo(LAMBDA k : QMul(Get(a, i, k), Get(b, k, j)), a.cols))

MatAdd(a, b) == MatOf(a.rows, a.cols, LAMBDA i, j : QAdd(Get(a, i, j), Get(b, i, j)))
MatSub(a, b) == MatOf(a.rows, a.cols, LAMBDA i, j : QSub(Get(a, i, j), Get(b, i, j)))
MatScale(a, s) == MatOf(a.rows, a.cols, LAMBDA i, j : QMul(Get(a, i, j), s))

\* data with the 0-based flat index k overwritten
SetAt(d, k, v) == [d EXCEPT ![k + 1] = v]

\* Result values: Ok(..), Err(kind, message), or a panic (failed assertion / expect)
Err(kind, msg) == [tag |-> "Err", kind |-> kind, msg |-> msg]
Panic(msg) == [tag |-> "Panic", msg |-> msg]

\* The model follows a computation only while every square root it takes is
\* exact; a call that has to round a root ends here, outside the model.
Rounded == [tag |-> "Rounded"]

(***************************************************************************)
(* Collaborators outside decomposition.rs (utils, matrix/mod.rs).          *)
(***************************************************************************)
RECURSIVE argmaxFrom(_, _, _)
argmaxFrom(u, k, best) ==
    IF k > Len(u) THEN best - 1
    ELSE argmaxFrom(u, k + 1, IF QLt(u[best], u[k]) THEN k ELSE best)

\* utils::argmax: 0-based index of the first occurrence of the greatest element
argmax(u) == argmaxFrom(u, 1, 1)

\* BaseSlice::is_diag: every off-diagonal entry is zero
is_diag(m) ==
    \A i \in 0..(m.rows - 1), j \in 0..(m.cols - 1) : i # j => Get(m, i, j) = Zero

\* column of the 1 in row i of a permutation matrix
PermCol(p, i) == CHOOSE j \in 0..(p.cols - 1) : Get(p, i, j) = One

\* matrix::parity: sign of the permutation a permutation matrix encodes
parity(p) ==
    LET inv == Cardinality({pr \in (0..(p.rows - 1)) \X (0..(p.rows - 1)) :
                              pr[1] < pr[2] /\ PermCol(p, pr[1]) > PermCol(p, pr[2])})
    IN  IF inv % 2 = 0 THEN One ELSE QNeg(One)

\* Matrix * Vector
MatVec(m, y) ==
    [idx \in 1..m.rows |-> SumTo(LAMBDA k : QMul(Get(m, idx - 1, k), y[k + 1]), m.cols)]

RECURSIVE forward_loop(_, _, _, _)
forward_loop(m, y, x, i) ==
    IF i >= Len(y) THEN [tag |-> "Ok", x |-> x]
    ELSE LET diag == Get(m, i, i)
             sum == SumTo(LAMBDA j : QMul(Get(m, i, j), x[j + 1]), i)
         IN  IF diag = Zero
             THEN Err("DecompFailure", "Linear system cannot be solved (matrix is singular).")
             ELSE forward_loop(m, y, SetAt(x, i, QDiv(QSub(y[i + 1], sum), diag)), i + 1)

\* matrix::forward_substitution: solves m x = y for lower-triangular m
forward_substitution(m, y) == forward_loop(m, y, [k \in 1..Len(y) |-> Zero], 0)

RECURSIVE back_loop(_, _, _, _)
back_loop(m, y, x, i) ==
    IF i < 0 THEN [tag |-> "Ok", x |-> x]
    ELSE LET diag == Get(m, i, i)
             sum == SumTo(LAMBDA t : QMul(Get(m, i, Len(y) - 1 - t), x[Len(y) - t]),
                          Len(y) - 1 - i)
         IN  IF diag = Zero
             THEN Err("DecompFailure", "Linear system cannot be solved (matrix is singular).")
             ELSE back_loop(m, y, SetAt(x, i, QDiv(QSub(y[i + 1], sum), diag)), i - 1)

\* matrix::back_substitution: solves m x = y for upper-triangular m
back_substitution(m, y) == back_loop(m, y, [k \in 1..Len(y) |-> Zero], Len(y) - 1)

(***************************************************************************)
(* Decomposition::lup_decomp                                               *)
(***************************************************************************)
\* p.data.swap(i*n + j, row*n + j) for j in 0..n
lup_swap_rows(p, n, i, row) ==
    [idx \in 1..(n * n) |->
        LET r == (idx - 1) \div n
            j == (idx - 1) % n
        IN  IF r = i THEN p[row * n + j + 1]
            ELSE IF r = row THEN p[i * n + j + 1]
            ELSE p[idx]]

\* utils::argmax(&mt.data[i*(n+1)..(i+1)*n])
lup_pivot_row(mt, n, i) == argmax(SubSeq(mt.data, i * (n + 1) + 1, (i + 1) * n))

\* rows i and row of p are swapped unless row is 0
lup_perm_step(p, n, i, row) == IF row # 0 THEN lup_swap_rows(p, n, i, row) ELSE p

RECURSIVE lup_perm(_, _, _, _)
\* the loop that computes the permutation matrix
lup_perm(p, mt, n, i) ==
    IF i >= n THEN p
    ELSE lup_perm(lup_perm_step(p, n, i, lup_pivot_row(mt, n, i)), mt, n, i + 1)

\* the sum stopping one term early
lup_sum_short(l, u, n, j, i, upto) ==
    SumTo(LAMBDA k : QMul(l[j * n + k + 1], u[k * n + i + 1]),
          IF upto > 0 THEN upto - 1 ELSE 0)

\* s1 (and s2): sum over k in 0..upto of l[j,k] * u[k,i]
lup_sum(l, u, n, j, i, upto) ==
    SumTo(LAMBDA k : QMul(l[j * n + k + 1], u[k * n + i + 1]), upto)

RECURSIVE lup_u_col(_, _, _, _, _, _)
\* for j in 0..i+1: u[j,i] = a_2[j,i] - s1
lup_u_col(l, u, a_2, n, i, j) ==
    IF j > i THEN u
    ELSE lup_u_col(l,
                   SetAt(u, j * n + i, QSub(Get(a_2, j, i), lup_sum(l, u, n, j, i, j))),
                   a_2, n, i, j + 1)

RECURSIVE lup_l_col(_, _, _, _, _, _)
\* for j in i..n: l[j,i] = (a_2[j,i] - s2) / u[i,i]   (u[i,i] is non-zero here)
lup_l_col(l, u, a_2, n, i, j) ==
    IF j >= n THEN l
    ELSE lup_l_col(SetAt(l, j * n + i,
                         QDiv(QSub(Get(a_2, j, i), lup_sum(l, u, n, j, i, i)),
                              u[i * n + i + 1])),
                   u, a_2, n, i, j + 1)

RECURSIVE lup_cols(_, _, _, _, _)
\* column i of l computed without the test of the pivot
lup_col_l_unchecked(l1, u1, a_2, n, i) ==
    lup_cols(lup_l_col(l1, u1, a_2, n, i, i), u1, a_2, n, i + 1)

\* column i of l, after column i of u (u1) is known: a zero pivot fails
lup_col_l(l1, u1, a_2, n, i) ==
    IF u1[i * n + i + 1] = Zero
    THEN Err("DecompFailure", "Matrix could not be LUP decomposed.")
    ELSE lup_cols(lup_l_col(l1, u1, a_2, n, i, i), u1, a_2, n, i + 1)

\* column i of u, after l[i,i] = 1 (l1)
lup_col_u(l1, u, a_2, n, i) == lup_col_l(l1, lup_u_col(l1, u, a_2, n, i, 0), a_2, n, i)

\* for i in 0..n: the Doolittle recursion, failing on a zero pivot
lup_cols(l, u, a_2, n, i) ==
    IF i >= n THEN [tag |-> "Ok", l |-> l, u |-> u]
    ELSE lup_col_u(SetAt(l, i * (n + 1), One), u, a_2, n, i)

\* Ok((l, u, p)) for the factors f, or the failure of the recursion
lup_result(n, p, f) ==
    IF f.tag = "Err" THEN f
    ELSE [tag |-> "Ok", l |-> Matrix(n, n, f.l), u |-> Matrix(n, n, f.u), p |-> p]

\* a_2 = p * self and the Doolittle recursion on it
lup_factor(self, n, p) ==
    lup_result(n, p, lup_cols(zeros(n, n).data, zeros(n, n).data, MatMul(p, self), n, 0))

lup_decomp(self) ==
    IF self.rows # self.cols THEN Panic("Matrix must be square for LUP decomposition.")
    ELSE lup_factor(self, self.cols,
                    Matrix(self.cols, self.cols,
                           lup_perm(identity(self.cols).data, transpose(self), self.cols, 0)))

(***************************************************************************)
(* Decomposition::inverse and Decomposition::det                           *)
(***************************************************************************)
RECURSIVE diag_product(_, _, _)
\* d = d * l[i,i]; d = d * u[i,i] for i in 0..l.cols
diag_product(l, u, i) ==
    IF i = 0 THEN One
    ELSE QMul(QMul(diag_product(l, u, i - 1), Get(l, i - 1, i - 1)), Get(u, i - 1, i - 1))

\* the i-th standard basis column
id_col(n, i) == [k \in 1..n |-> IF k = i + 1 THEN One ELSE Zero]

RECURSIVE inverse_cols(_, _, _, _, _, _)
\* x = back_substitution(u, b) is appended to inv_t_data
inverse_col_x(l, u, p, n, i, inv_t_data, x) ==
    IF x.tag # "Ok" THEN Panic("Matrix is singular AND has non-zero determinant!?")
    ELSE inverse_cols(l, u, p, n, i + 1, inv_t_data \o x.x)

\* b = forward_substitution(l, p * id_col)
inverse_col_b(l, u, p, n, i, inv_t_data, b) ==
    IF b.tag # "Ok" THEN Panic("Matrix is singular AND has non-zero determinant!?")
    ELSE inverse_col_x(l, u, p, n, i, inv_t_data, back_substitution(u, b.x))

\* for i in 0..rows: solve for the i-th basis column and append to inv_t_data
inverse_cols(l, u, p, n, i, inv_t_data) ==
    IF i >= n THEN [tag |-> "Ok", data |-> inv_t_data]
    ELSE inverse_col_b(l, u, p, n, i, inv_t_data,
                       forward_substitution(l, MatVec(p, id_col(n, i))))

\* Ok(Matrix::new(rows, cols, inv_t_data).transpose())
inverse_result(self, c) ==
    IF c.tag # "Ok" THEN c
    ELSE [tag |-> "Ok", m |-> transpose(Matrix(self.rows, self.cols, c.data))]

\* the body of inverse after the call of lup_decomp, whose result is f
inverse_from(self, f) ==
    IF f.tag = "Err"
    THEN Err("DecompFailure", "Could not compute LUP factorization for inverse.")
    ELSE IF diag_product(f.l, f.u, f.l.cols) = Zero
    THEN Err("DecompFailure", "Matrix is singular and cannot be inverted.")
    ELSE inverse_result(self, inverse_cols(f.l, f.u, f.p, self.rows, 0, <<>>))

inverse(self) ==
    IF self.rows # self.cols THEN Panic("Matrix is not square.")
    ELSE inverse_from(self, lup_decomp(self))

RECURSIVE self_diag_product(_, _)
\* d = d * self[i,i] for i in 0..n
self_diag_product(self, i) ==
    IF i = 0 THEN One ELSE QMul(self_diag_product(self, i - 1), Get(self, i - 1, i - 1))

\* the 2 x 2 formula with the sign of the second product lost
det_2_plus(m) == QAdd(QMul(Get(m, 0, 0), Get(m, 1, 1)), QMul(Get(m, 0, 1), Get(m, 1, 0)))

det_2(m) == QSub(QMul(Get(m, 0, 0), Get(m, 1, 1)), QMul(Get(m, 0, 1), Get(m, 1, 0)))

Mul3(a, b, c) == QMul(QMul(a, b), c)

det_3(m) ==
    QSub(QSub(QSub(QAdd(QAdd(Mul3(Get(m, 0, 0), Get(m, 1, 1), Get(m, 2, 2)),
                             Mul3(Get(m, 0, 1), Get(m, 1, 2), Get(m, 2, 0))),
                        Mul3(Get(m, 0, 2), Get(m, 1, 0), Get(m, 2, 1))),
                   Mul3(Get(m, 0, 0), Get(m, 1, 2), Get(m, 2, 1))),
              Mul3(Get(m, 0, 1), Get(m, 1, 0), Get(m, 2, 2))),
         Mul3(Get(m, 0, 2), Get(m, 1, 1), Get(m, 2, 0)))

\* the general branch after the call of lup_decomp, whose result is f: the
\* product of the diagonals times the sign of the permutation
det_from(f) ==
    IF f.tag # "Ok" THEN Panic("Could not compute LUP decomposition.")
    ELSE [tag |-> "Ok", d |-> QMul(parity(f.p), diag_product(f.l, f.u, f.l.cols))]

det_lup(self) == det_from(lup_decomp(self))

det(self) ==
    LET n == self.cols
    IN  IF self.rows # self.cols THEN Panic("Matrix is not square.")
        ELSE IF is_diag(self) THEN [tag |-> "Ok", d |-> self_diag_product(self, n)]
        ELSE IF n = 2 THEN [tag |-> "Ok", d |-> det_2(self)]
        ELSE IF n = 3 THEN [tag |-> "Ok", d |-> det_3(self)]
        ELSE det_lup(self)

(***************************************************************************)
(* make_householder                                                        *)
(***************************************************************************)
\* utils::dot
dot(x, y) == SumTo(LAMBDA k : QMul(x[k + 1], y[k + 1]), Len(x))

\* denom = column[0] + column[0].signum() * utils::dot(column, column).sqrt()
householder_denom(column, norm_sq) ==
    QAdd(column[1], QMul(signum(column[1]), sqrt(norm_sq)))

\* v = column / denom with the first element fixed to 1
householder_v(column, denom) ==
    [k \in 1..Len(column) |-> IF k = 1 THEN One ELSE QDiv(column[k], denom)]

\* identity(size) - (v_vert * v_hor) * factor
householder_outer(v, factor) ==
    MatOf(Len(v), Len(v),
          LAMBDA i, j : QSub(IF i = j THEN One ELSE Zero,
                             QMul(QMul(v[i + 1], v[j + 1]), factor)))

\* identity(size) - (v_vert * v_hor) * (1 / v_norm_sq)
householder_matrix_half(v) == householder_outer(v, QDiv(One, dot(v, v)))

\* identity(size) - (v_vert * v_hor) * (2 / v_norm_sq)
householder_matrix(v) == householder_outer(v, QDiv(Two, dot(v, v)))

\* the reflector for a column and its denom
householder_with(column, denom) ==
    IF denom = Zero
    THEN Err("DecompFailure",
             "Cannot produce househoulder transform from column as first entry is 0.")
    ELSE [tag |-> "Ok", h |-> householder_matrix(householder_v(column, denom))]

\* a column whose norm is not rational ends Rounded
householder_from(column, norm_sq) ==
    IF ~ExactRoot(norm_sq) THEN Rounded
    ELSE householder_with(column, householder_denom(column, norm_sq))

\* Ok carries the reflector h
make_householder(column) ==
    IF Len(column) = 0
    THEN Err("InvalidArg", "Column for householder transform cannot be empty.")
    ELSE householder_from(column, dot(column, column))

(***************************************************************************)
(* make_householder_vec                                                    *)
(***************************************************************************)
\* &v / v.norm()
householder_unit(v, norm) == [k \in 1..Len(v) |-> QDiv(v[k], norm)]

\* v normalised; a v whose norm is not rational ends Rounded
householder_vec_of(v) ==
    IF ~ExactRoot(dot(v, v)) THEN Rounded
    ELSE [tag |-> "Ok", w |-> householder_unit(v, sqrt(dot(v, v)))]

\* the unit vector for a column and its denom
householder_vec_with(column, denom) ==
    IF denom = Zero
    THEN Err("DecompFailure",
             "Cannot produce househoulder transform from column as first entry is 0.")
    ELSE householder_vec_of(householder_v(column, denom))

householder_vec_from(column, norm_sq) ==
    IF ~ExactRoot(norm_sq) THEN Rounded
    ELSE householder_vec_with(column, householder_denom(column, norm_sq))

\* Ok carries the unit vector w
make_householder_vec(column) ==
    IF Len(column) = 0
    THEN Err("InvalidArg", "Column for householder transform cannot be empty.")
    ELSE householder_vec_from(column, dot(column, column))

(***************************************************************************)
(* Views (matrix/slice.rs collaborator).                                   *)
(***************************************************************************)
\* the window as a matrix of its own
Block(m, i, j, rows, cols) == MatOf(rows, cols, LAMBDA r, c : Get(m, i + r, j + c))

\* the elements of a window in iteration (row-major) order
BlockData(m, i, j, rows, cols) == Block(m, i, j, rows, cols).data

\* MatrixSliceMut::set_to: the host with the window overwritten by b
SetBlock(m, i, j, b) ==
    MatOf(m.rows, m.cols,
          LAMBDA r, c : IF r >= i /\ r < i + b.rows /\ c >= j /\ c < j + b.cols
                        THEN Get(b, r - i, c - j)
                        ELSE Get(m, r, c))

(***************************************************************************)
(* Decomposition::solve                                                    *)
(***************************************************************************)
\* try!(forward_substitution(..)) and then back_substitution(&u, b)
solve_back(u, b) == IF b.tag # "Ok" THEN b ELSE back_substitution(u, b.x)

\* the body of solve after the call of lup_decomp, whose result is f
solve_from(f, y) ==
    IF f.tag # "Ok" THEN f
    ELSE solve_back(f.u, forward_substitution(f.l, MatVec(f.p, y)))

\* Ok carries the solution x
solve(self, y) == solve_from(lup_decomp(self), y)

(***************************************************************************)
(* Decomposition::upper_hessenberg and Decomposition::upper_hess_decomp    *)
(***************************************************************************)
\* a vector as a column matrix
ColumnMatrix(w) == Matrix(Len(w), 1, w)

\* block -= &h_holder_vec * (h_holder_vec.transpose() * &block) * 2
reflect_left(block, w) ==
    MatSub(block,
           MatScale(MatMul(ColumnMatrix(w), MatMul(transpose(ColumnMatrix(w)), block)), Two))

\* block -= (&block * &h_holder_vec) * h_holder_vec.transpose() * 2
reflect_right(block, w) ==
    MatSub(block,
           MatScale(MatMul(MatMul(block, ColumnMatrix(w)), transpose(ColumnMatrix(w))), Two))

\* the reflector applied on the left to rows i+1.., columns i..
hess_left(m, n, i, w) ==
    SetBlock(m, i + 1, i, reflect_left(Block(m, i + 1, i, n - i - 1, n - i), w))

\* the reflector applied on the right to columns i+1..
hess_right(m, n, i, w) ==
    SetBlock(m, 0, i + 1, reflect_right(Block(m, 0, i + 1, n, n - i - 1), w))

\* lower_slice: rows i+1.. of column i
hess_lower_slice(m, n, i) == BlockData(m, i + 1, i, n - i - 1, 1)

\* every entry below the sub-diagonal is set to zero
hess_enforce(m) ==
    MatOf(m.rows, m.cols,
          LAMBDA j, i : IF i < m.cols - 2 /\ j >= i + 2 THEN Zero ELSE Get(m, j, i))

RECURSIVE hess_loop(_, _, _)
RECURSIVE hess_step(_, _, _, _)
\* the loop stopping one column early and returning the working matrix as it is
hess_loop_short(m, n, i) ==
    IF i >= n - 3 THEN [tag |-> "Ok", h |-> m]
    ELSE hess_step(m, n, i, make_householder_vec(hess_lower_slice(m, n, i)))

\* step i with the result hv of make_householder_vec
hess_step(m, n, i, hv) ==
    IF hv.tag = "Err" THEN Err("DecompFailure", "Cannot compute upper Hessenberg form.")
    ELSE IF hv.tag = "Rounded" THEN Rounded
    ELSE hess_loop(hess_right(hess_left(m, n, i, hv.w), n, i, hv.w), n, i + 1)

\* for i in 0..n-2, then the zeroing and Ok(self_m)
hess_loop(m, n, i) ==
    IF i >= n - 2 THEN [tag |-> "Ok", h |-> hess_enforce(m)]
    ELSE hess_step(m, n, i, make_householder_vec(hess_lower_slice(m, n, i)))

\* upper_hessenberg without its assertion
upper_hessenberg_unasserted(self, checked) ==
    IF self.rows < 2
    THEN (IF checked THEN Panic("attempt to subtract with overflow")
          ELSE hess_step(self, self.rows, 0,
                         make_householder_vec(hess_lower_slice(self, self.rows, 0))))
    ELSE hess_loop(self, self.rows, 0)

\* n - 2 underflows for n < 2: a build with overflow checks panics, one without
\* them enters the loop and takes the empty sub-column at i = 0
upper_hessenberg(self, checked) ==
    IF self.rows # self.cols
    THEN Panic("Matrix must be square to produce upper hessenberg.")
    ELSE IF self.rows < 2
    THEN (IF checked THEN Panic("attempt to subtract with overflow")
          ELSE hess_step(self, self.rows, 0,
                         make_householder_vec(hess_lower_slice(self, self.rows, 0))))
    ELSE hess_loop(self, self.rows, 0)

\* trans_block -= &h_holder_vec * (h_holder_vec.transpose() * &trans_block) * 2
hess_trans_apply(transform, n, i, w) ==
    SetBlock(transform, i + 1, i + 1,
             reflect_left(Block(transform, i + 1, i + 1, n - i - 1, n - i - 1), w))

RECURSIVE hess_trans_loop(_, _, _, _)
hess_trans_step(self_m, transform, n, i, hv) ==
    IF hv.tag = "Err" THEN Err("DecompFailure", "Could not compute eigenvalues.")
    ELSE IF hv.tag = "Rounded" THEN Rounded
    ELSE hess_trans_loop(self_m, hess_trans_apply(transform, n, i, hv.w), n, i - 1)

\* for i in (0..n-2).rev(): the reflector of column i of self_m is applied to transform
hess_trans_loop(self_m, transform, n, i) ==
    IF i < 0 THEN [tag |-> "Ok", t |-> transform]
    ELSE hess_trans_step(self_m, transform, n, i,
                         make_householder_vec(hess_lower_slice(self_m, n, i)))

\* Ok((transform, try!(self_m.upper_hessenberg())))
hess_decomp_result(t, h) ==
    IF t.tag # "Ok" THEN t
    ELSE IF h.tag # "Ok" THEN h
    ELSE [tag |-> "Ok", t |-> t.t, h |-> h.h]

\* n - 2 underflows for n < 2: a build with overflow checks panics, one without
\* them addresses a sub-column outside the matrix and fails
upper_hess_decomp(self, checked) ==
    IF self.rows # self.cols
    THEN Panic("Matrix must be square to produce upper hessenberg.")
    ELSE IF self.rows < 2
    THEN (IF checked THEN Panic("attempt to subtract with overflow")
          ELSE Err("DecompFailure", "Could not compute eigenvalues."))
    ELSE hess_decomp_result(hess_trans_loop(self, identity(self.rows), self.rows,
                                            self.rows - 3),
                            upper_hessenberg(self, checked))

(***************************************************************************)
(* Decomposition::qr_decomp, one reflector step at a time.                 *)
(***************************************************************************)
\* the number of reflector steps: n - ((m == n) as usize)
qr_steps(m, n) == n - (IF m = n THEN 1 ELSE 0)

\* h_full_data: identity rows above row i, then i zeros followed by a holder row
qr_h_full(holder, m, i) ==
    MatOf(m, m, LAMBDA j, c : IF j < i THEN (IF c = j THEN One ELSE Zero)
                              ELSE IF c < i THEN Zero
                              ELSE Get(holder, j - i, c - i))

\* MatrixSlice::from_matrix(&r, [i, i], m - i, 1): rows i.. of column i of r, an
\* empty column when i = m (steps with i > m are never reached)
qr_lower_slice(r, m, i) == BlockData(r, i, i, m - i, 1)

QrStart ==
    /\ pc = "ready"
    /\ op' = "qr_decomp"
    /\ st' = [i |-> 0, q |-> identity(inp.rows), r |-> inp]
    /\ pc' = "qr_loop"
    /\ UNCHANGED <<inp, out>>

\* the loop is over: Ok((q, r))
QrReturn ==
    /\ pc = "qr_loop"
    /\ st.i >= qr_steps(inp.rows, inp.cols)
    /\ out' = [tag |-> "Ok", q |-> st.q, r |-> st.r]
    /\ pc' = "done"
    /\ UNCHANGED <<op, inp, st>>

\* the error of make_householder returned as it is
QrFailUnmapped ==
    /\ pc = "qr_loop"
    /\ st.i < qr_steps(inp.rows, inp.cols)
    /\ make_householder(qr_lower_slice(st.r, inp.rows, st.i)).tag = "Err"
    /\ out' = make_householder(qr_lower_slice(st.r, inp.rows, st.i))
    /\ pc' = "done"
    /\ UNCHANGED <<op, inp, st>>

\* the reflector cannot be built
QrFail ==
    /\ pc = "qr_loop"
    /\ st.i < qr_steps(inp.rows, inp.cols)
    /\ make_householder(qr_lower_slice(st.r, inp.rows, st.i)).tag = "Err"
    /\ out' = Err("DecompFailure", "Cannot compute QR decomposition.")
    /\ pc' = "done"
    /\ UNCHANGED <<op, inp, st>>

\* q = q * h; r = h * r for the full-size reflector h
QrApply(h) == st' = [i |-> st.i + 1, q |-> MatMul(st.q, h), r |-> MatMul(h, st.r)]

\* the reflector of step i is built and applied
QrReflect ==
    /\ pc = "qr_loop"
    /\ st.i < qr_steps(inp.rows, inp.cols)
    /\ make_householder(qr_lower_slice(st.r, inp.rows, st.i)).tag = "Ok"
    /\ QrApply(qr_h_full(make_householder(qr_lower_slice(st.r, inp.rows, st.i)).h,
                         inp.rows, st.i))
    /\ UNCHANGED <<pc, op, inp, out>>

\* the norm of the column is not rational: the run leaves the model
QrRounded ==
    /\ pc = "qr_loop"
    /\ st.i < qr_steps(inp.rows, inp.cols)
    /\ make_householder(qr_lower_slice(st.r, inp.rows, st.i)).tag = "Rounded"
    /\ out' = Rounded
    /\ pc' = "done"
    /\ UNCHANGED <<op, inp, st>>

(***************************************************************************)
(* Decomposition::bidiagonal_decomp                                        *)
(***************************************************************************)
BidiagErr == Err("DecompFailure", "Cannot compute bidiagonal form.")

\* the left reflector h_holder of step k, applied to self_m and accumulated into u
bidiag_left_apply(w, m, n, k, h_holder) ==
    IF h_holder.tag = "Err" THEN BidiagErr
    ELSE IF h_holder.tag = "Rounded" THEN Rounded
    ELSE [tag |-> "Ok",
          self_m |-> SetBlock(w.self_m, k, k,
                              MatMul(h_holder.h, Block(w.self_m, k, k, m - k, n - k))),
          u |-> SetBlock(w.u, 0, k, MatMul(Block(w.u, 0, k, m, m - k), h_holder.h)),
          v |-> w.v]

bidiag_left(w, m, n, k) ==
    bidiag_left_apply(w, m, n, k, make_householder(BlockData(w.self_m, k, k, m - k, 1)))

\* the right reflector row_h_holder of step k, applied to self_m and accumulated
\* into v
bidiag_right_apply(w, m, n, k, row_h_holder) ==
    IF row_h_holder.tag = "Err" THEN BidiagErr
    ELSE IF row_h_holder.tag = "Rounded" THEN Rounded
    ELSE [tag |-> "Ok",
          self_m |-> SetBlock(w.self_m, k, k + 1,
                              MatMul(Block(w.self_m, k, k + 1, m - k, n - k - 1),
                                     row_h_holder.h)),
          u |-> w.u,
          v |-> SetBlock(w.v, 0, k + 1,
                         MatMul(Block(w.v, 0, k + 1, n, n - k - 1), row_h_holder.h))]

bidiag_right(w, m, n, k) ==
    bidiag_right_apply(w, m, n, k,
                       make_householder(BlockData(w.self_m, k, k + 1, 1, n - k - 1)))

\* the test `k < n - 2` in usize arithmetic: n - 2 wraps around for n < 2 when
\* overflow checks are off (checked = FALSE) and panics when they are on
bidiag_wants_right(n, k, checked) == IF n < 2 THEN ~checked ELSE k < n - 2

RECURSIVE bidiag_loop(_, _, _, _, _)
\* step k after its right reflector (r)
bidiag_after_right(r, m, n, k, checked) ==
    IF r.tag # "Ok" THEN r ELSE bidiag_loop(r, m, n, k + 1, checked)

\* step k after its left reflector (l)
bidiag_after_left(l, m, n, k, checked) ==
    IF l.tag # "Ok" THEN l
    ELSE IF n < 2 /\ checked THEN Panic("attempt to subtract with overflow")
    ELSE IF bidiag_wants_right(n, k, checked)
    THEN bidiag_after_right(bidiag_right(l, m, n, k), m, n, k, checked)
    ELSE bidiag_loop(l, m, n, k + 1, checked)

\* for k in 0..n
bidiag_loop(w, m, n, k, checked) ==
    IF k >= n THEN w
    ELSE bidiag_after_left(bidiag_left(w, m, n, k), m, n, k, checked)

\* the result tuple built without regard to the flip
bidiag_result_unflipped(flipped, self_m, u, v) ==
    [tag |-> "Ok", b |-> self_m, u |-> u, v |-> v]

\* the result tuple: (self_m, u, v), or (self_m^T, v, u) for a flipped input
bidiag_result(flipped, self_m, u, v) ==
    IF flipped THEN [tag |-> "Ok", b |-> transpose(self_m), u |-> v, v |-> u]
    ELSE [tag |-> "Ok", b |-> self_m, u |-> u, v |-> v]

\* the truncation of the working matrices w to n x n, m x n and n x n
bidiag_finish(flipped, m, n, w) ==
    IF w.tag # "Ok" THEN w
    ELSE bidiag_result(flipped,
                       Matrix(n, n, SubSeq(w.self_m.data, 1, n * n)),
                       Block(w.u, 0, 0, m, n),
                       w.v)

\* the loop on the tall matrix self_m
bidiag_run(flipped, self_m, checked) ==
    bidiag_finish(flipped, self_m.rows, self_m.cols,
                  bidiag_loop([tag |-> "Ok", self_m |-> self_m,
                               u |-> identity(self_m.rows), v |-> identity(self_m.cols)],
                              self_m.rows, self_m.cols, 0, checked))

bidiagonal_decomp(self, checked) ==
    IF self.rows < self.cols THEN bidiag_run(TRUE, transpose(self), checked)
    ELSE bidiag_run(FALSE, self, checked)

\* checked ranges over the two ways the crate can be built
CallBidiagonalDecomp ==
    /\ pc = "ready"
    /\ op' = "bidiagonal_decomp"
    /\ \E checked \in BOOLEAN : out' = bidiagonal_decomp(inp, checked)
    /\ pc' = "done"
    /\ UNCHANGED <<inp, st>>

(***************************************************************************)
(* Eigenvalues of 1 x 1 and 2 x 2 matrices.                                *)
(***************************************************************************)
\* tr = data[0] + data[3]
eig2_tr(data) == QAdd(data[1], data[4])
\* det = data[0] * data[3] - data[1] * data[2]
eig2_det(data) == QSub(QMul(data[1], data[4]), QMul(data[2], data[3]))
\* discr = tr * tr - four * det
eig2_discr(data) ==
    QSub(QMul(eig2_tr(data), eig2_tr(data)), QMul(Four, eig2_det(data)))

\* the two roots in the opposite order
eig2_values_swapped(tr, discr_root) ==
    <<QDiv(QAdd(tr, discr_root), Two), QDiv(QSub(tr, discr_root), Two)>>

\* vec![(tr - discr_root) / two, (tr + discr_root) / two]
eig2_values(tr, discr_root) ==
    <<QDiv(QSub(tr, discr_root), Two), QDiv(QAdd(tr, discr_root), Two)>>

\* the failure for a negative discriminant, otherwise the two roots
eig2_roots(tr, discr) ==
    IF QLt(discr, Zero)
    THEN Err("DecompFailure",
             "Matrix has complex eigenvalues. Currently unsupported, sorry!")
    ELSE IF ~ExactRoot(discr) THEN Rounded
    ELSE [tag |-> "Ok", e |-> eig2_values(tr, sqrt(discr))]

direct_2_by_2_eigenvalues(self_m) ==
    eig2_roots(eig2_tr(SubSeq(self_m.data, 1, 4)), eig2_discr(SubSeq(self_m.data, 1, 4)))

\* Decomposition::eigenvalues: the dispatch on n; the arm for n > 2 hands over to
\* francis_shift_eigenvalues
eigenvalues(self) ==
    IF self.rows # self.cols THEN Panic("Matrix must be square for eigenvalue computation.")
    ELSE IF self.rows = 1 THEN [tag |-> "Ok", e |-> <<self.data[1]>>]
    ELSE IF self.rows = 2 THEN direct_2_by_2_eigenvalues(self)
    ELSE [tag |-> "FrancisShift"]

\* the eigenvector matrix of a 2 x 2 matrix for the eigenvalues e
eig2_vectors(data, e) ==
    IF data[3] # Zero
    THEN Matrix(2, 2, <<QSub(e[1], data[4]), QSub(e[2], data[4]), data[3], data[3]>>)
    ELSE IF data[2] # Zero
    THEN Matrix(2, 2, <<data[2], data[2], QSub(e[1], data[1]), QSub(e[2], data[1])>>)
    ELSE Matrix(2, 2, <<One, Zero, Zero, One>>)

\* the body after try!(self_m.eigenvalues()), whose result is ev
eig2_decomp_from(self_m, ev) ==
    IF ev.tag # "Ok" THEN ev
    ELSE [tag |-> "Ok", e |-> ev.e, m |-> eig2_vectors(SubSeq(self_m.data, 1, 4), ev.e)]

direct_2_by_2_eigendecomp(self_m) == eig2_decomp_from(self_m, eigenvalues(self_m))

\* Decomposition::eigendecomp: the dispatch on n
eigendecomp(self) ==
    IF self.rows # self.cols THEN Panic("Matrix must be square for eigendecomp.")
    ELSE IF self.rows = 1
    THEN [tag |-> "Ok", e |-> <<self.data[1]>>, m |-> Matrix(1, 1, <<One>>)]
    ELSE IF self.rows = 2 THEN direct_2_by_2_eigendecomp(self)
    ELSE [tag |-> "FrancisShift"]

CallEigenvalues ==
    /\ pc = "ready"
    /\ op' = "eigenvalues"
    /\ out' = eigenvalues(inp)
    /\ pc' = "done"
    /\ UNCHANGED <<inp, st>>

CallEigendecomp ==
    /\ pc = "ready"
    /\ op' = "eigendecomp"
    /\ out' = eigendecomp(inp)
    /\ pc' = "done"
    /\ UNCHANGED <<inp, st>>

(***************************************************************************)
(* Decomposition::cholesky                                                 *)
(***************************************************************************)
\* sum over k in 0..j of new_data[i*cols + k] * new_data[j*cols + k]
cholesky_sum(new_data, cols, i, j) ==
    SumTo(LAMBDA k : QMul(new_data[i * cols + k + 1], new_data[j * cols + k + 1]), j)

RECURSIVE cholesky_loop(_, _, _)
\* an entry below the diagonal: p = (data - sum) / new_data[j*cols + j]
cholesky_below(self, new_data, idx, p) ==
    IF ~is_finite(p) THEN Err("DecompFailure", "Matrix is not positive definite.")
    ELSE cholesky_loop(self, Append(new_data, p), idx + 1)

\* entry (i, j) with j <= i, for residual = data - sum
cholesky_entry(self, new_data, idx, i, j, residual) ==
    IF j = i
    THEN IF ~SqrtKnown(residual) THEN Rounded
         ELSE cholesky_loop(self, Append(new_data, sqrt(residual)), idx + 1)
    ELSE cholesky_below(self, new_data, idx,
                        QDiv(residual, new_data[j * self.cols + j + 1]))

\* the double loop over (i, j) in row-major order, idx = i*cols + j
cholesky_loop(self, new_data, idx) ==
    IF idx >= self.rows * self.cols THEN [tag |-> "Ok", data |-> new_data]
    ELSE IF idx % self.cols > idx \div self.cols
    THEN cholesky_loop(self, Append(new_data, Zero), idx + 1)
    ELSE cholesky_entry(self, new_data, idx, idx \div self.cols, idx % self.cols,
                        QSub(self.data[idx + 1],
                             cholesky_sum(new_data, self.cols,
                                          idx \div self.cols, idx % self.cols)))

\* Ok(Matrix { rows, cols, data: new_data })
cholesky_result(self, r) ==
    IF r.tag # "Ok" THEN r ELSE [tag |-> "Ok", l |-> Matrix(self.rows, self.cols, r.data)]

cholesky(self) ==
    IF self.rows # self.cols THEN Panic("Matrix must be square for Cholesky decomposition.")
    ELSE cholesky_result(self, cholesky_loop(self, <<>>, 0))

CallCholesky ==
    /\ pc = "ready"
    /\ op' = "cholesky"
    /\ out' = cholesky(inp)
    /\ pc' = "done"
    /\ UNCHANGED <<inp, st>>

(***************************************************************************)
(* Decomposition::svd, one pass of its loop at a time, and the Golub-Kahan *)
(* step.                                                                   *)
(***************************************************************************)
\* T::min_positive_value()
min_positive_value == Rat(1, MinPositiveInv)

\* (a / r, -b / r) for r = a.hypot(b)
givens_rot(a, b) == <<QDiv(a, hypot(a, b)), QDiv(QNeg(b), hypot(a, b))>>

\* the hypotenuse of givens_rot(a, b) is taken without rounding
givens_known(a, b) == SqrtKnown(QAdd(QMul(a, a), QMul(b, b)))

MaxI(a, b) == IF a > b THEN a ELSE b
MinI(a, b) == IF a < b THEN a ELSE b

\* C = x^T x + y^T y, or y^T y when the window has no rows above y
gk_c(b, p, q) ==
    LET n == b.rows
        y == Block(b, n - q - 2, n - q - 2, 2, 2)
        x == Block(b, p, n - q - 2, n - q - p - 2, 2)
    IN  IF n - q - p - 2 > 0
        THEN MatAdd(MatMul(transpose(x), x), MatMul(transpose(y), y))
        ELSE MatMul(transpose(y), y)

\* the eigenvalue of C closest to c[1,1]
gk_lambda(c, c_eigs) ==
    IF QLt(QAbs(QSub(c_eigs[1], Get(c, 1, 1))), QAbs(QSub(c_eigs[2], Get(c, 1, 1))))
    THEN c_eigs[1]
    ELSE c_eigs[2]

\* Matrix::new(2, 2, vec![c, s, -s, c]) for g = (c, s)
rot_right(g) == Matrix(2, 2, <<g[1], g[2], QNeg(g[2]), g[1]>>)

\* Matrix::new(2, 2, vec![c, -s, s, c]) for g = (c, s)
rot_left(g) == Matrix(2, 2, <<g[1], QNeg(g[2]), g[2], g[1]>>)

\* the rotation of columns k and k+1: the rows of B from r0 and all of V are
\* multiplied by givens_mat
gk_right_apply(w, k, r0, givens_mat) ==
    [w EXCEPT !.b = SetBlock(w.b, r0, k,
                             MatMul(Block(w.b, r0, k, MinI(3, w.b.rows - r0), 2),
                                    givens_mat)),
              !.v = SetBlock(w.v, 0, k, MatMul(Block(w.v, 0, k, w.b.rows, 2), givens_mat))]

gk_right(w, k, alpha, beta) ==
    gk_right_apply(w, k, MaxI(k - 1, 0), rot_right(givens_rot(alpha, beta)))

\* the rotation of rows k and k+1: B is multiplied from the left by givens_mat
\* and U from the right by its transpose
gk_left_apply(w, k, givens_mat) ==
    [w EXCEPT !.b = SetBlock(w.b, k, k,
                             MatMul(givens_mat,
                                    Block(w.b, k, k, 2, MinI(3, w.b.rows - k)))),
              !.u = SetBlock(w.u, 0, k,
                             MatMul(Block(w.u, 0, k, w.u.rows, 2), transpose(givens_mat)))]

gk_left(w, k, alpha, beta) == gk_left_apply(w, k, rot_left(givens_rot(alpha, beta)))

RECURSIVE gk_loop(_, _, _, _, _)
\* iteration k after its left rotation (w2): alpha and beta for the next one
gk_after_left(w2, k, q, alpha, beta) ==
    IF k + 2 < w2.b.rows - q
    THEN gk_loop(w2, k + 1, q, Get(w2.b, k, k + 1), Get(w2.b, k, k + 2))
    ELSE gk_loop(w2, k + 1, q, alpha, beta)

\* the left rotation of iteration k, from alpha = b[k,k] and beta = b[k+1,k]
gk_try_left(w1, k, q, alpha, beta) ==
    IF ~givens_known(alpha, beta) THEN Rounded
    ELSE gk_after_left(gk_left(w1, k, alpha, beta), k, q, alpha, beta)

\* iteration k after its right rotation (w1)
gk_after_right(w1, k, q) == gk_try_left(w1, k, q, Get(w1.b, k, k), Get(w1.b, k + 1, k))

\* for k in p..n - q - 1, entered with the current alpha and beta
gk_loop(w, k, q, alpha, beta) ==
    IF k >= w.b.rows - q - 1 THEN [tag |-> "Ok", b |-> w.b, u |-> w.u, v |-> w.v]
    ELSE IF ~givens_known(alpha, beta) THEN Rounded
    ELSE gk_after_right(gk_right(w, k, alpha, beta), k, q)

\* the loop entered with alpha = b_pp^2 - lambda and beta = b_pp * b[p,p+1]
gk_from(w, p, q, b_pp, lambda) ==
    gk_loop(w, p, q, QSub(QMul(b_pp, b_pp), lambda), QMul(b_pp, Get(w.b, p, p + 1)))

\* the step after try!(c.eigenvalues()), whose result is c_eigs
gk_with_eigs(w, p, q, c, c_eigs) ==
    IF c_eigs.tag # "Ok" THEN c_eigs
    ELSE gk_from(w, p, q, Get(w.b, p, p), gk_lambda(c, c_eigs.e))

\* the step for the matrix c
gk_with_c(w, p, q, c) == gk_with_eigs(w, p, q, c, eigenvalues(c))

\* w carries b, u and v; the result carries them after the step
golub_kahan_svd_step(w, p, q) ==
    IF w.b.rows - q - p - 2 < 0 THEN Panic("attempt to subtract with overflow")
    ELSE gk_with_c(w, p, q, gk_c(w.b, p, q))

\* one iteration of the scan, for super-diagonal entry i
svd_scan_entry(s, i) ==
    LET b_ii == Get(s.b, i, i)
        b_sup_diag == QAbs(Get(s.b, i, i + 1))
        diag_abs_sum == QMul(min_positive_value, QAdd(QAbs(b_ii), Get(s.b, i + 1, i + 1)))
    IN  IF QLe(b_sup_diag, diag_abs_sum)
        THEN [s EXCEPT !.q = IF s.on_lower THEN @ + 1 ELSE @,
                       !.on_middle = IF ~s.on_lower THEN FALSE ELSE @,
                       !.p = IF ~s.on_lower /\ s.on_middle THEN i + 1 ELSE @,
                       !.b = Matrix(@.rows, @.cols, SetAt(@.data, i * @.cols + i + 1, Zero))]
        ELSE IF s.on_lower THEN [s EXCEPT !.on_middle = TRUE, !.on_lower = FALSE]
        ELSE s

RECURSIVE svd_scan_from(_, _)
\* for i in (0..n - 1).rev(), from entry i downwards
svd_scan_from(s, i) == IF i < 0 THEN s ELSE svd_scan_from(svd_scan_entry(s, i), i - 1)

svd_scan(b) ==
    svd_scan_from([b |-> b, q |-> 0, on_lower |-> TRUE, p |-> 0, on_middle |-> FALSE],
                  b.cols - 2)

\* the explicit rotation of row i: the 1 x 2 window at [i, i] times givens
svd_zero_apply(b, i, givens) == SetBlock(b, i, i, MatMul(Block(b, i, i, 1, 2), givens))

svd_zero_entry_left(b, i) ==
    svd_zero_apply(b, i, rot_left(givens_rot(Get(b, i, i), Get(b, i, i + 1))))

svd_zero_entry(b, i) ==
    svd_zero_apply(b, i, rot_right(givens_rot(Get(b, i, i), Get(b, i, i + 1))))

svd_small(b, i) == QLt(QAbs(Get(b, i, i)), min_positive_value)

RECURSIVE svd_zero_from(_, _, _)
\* for i in p..n - q - 1, from entry i upwards
svd_zero_from(b, i, q) ==
    IF i >= b.cols - q - 1 THEN [tag |-> "Ok", b |-> b]
    ELSE IF ~svd_small(b, i) THEN svd_zero_from(b, i + 1, q)
    ELSE IF ~givens_known(Get(b, i, i), Get(b, i, i + 1)) THEN Rounded
    ELSE svd_zero_from(svd_zero_entry(b, i), i + 1, q)

\* Ok((b, u, v)), or Ok((b^T, v, u)) for a flipped input
svd_result(w) ==
    IF w.flipped THEN [tag |-> "Ok", b |-> transpose(w.b), u |-> w.v, v |-> w.u]
    ELSE [tag |-> "Ok", b |-> w.b, u |-> w.u, v |-> w.v]

SvdErr == Err("DecompFailure", "Could not compute SVD.")

\* the loop is entered with the factors r, or the call fails
SvdEnter(flipped, r) ==
    IF r.tag = "Ok"
    THEN /\ st' = [b |-> r.b, u |-> r.u, v |-> r.v, p |-> 0, q |-> 0,
                   flipped |-> flipped, iter |-> 0]
         /\ pc' = "svd_scan"
         /\ out' = out
    ELSE /\ out' = IF r.tag = "Err" THEN SvdErr ELSE r
         /\ pc' = "done"
         /\ st' = st

\* the transposition of a wide input and the bidiagonal decomposition
SvdStart ==
    /\ pc = "ready"
    /\ op' = "svd"
    /\ \E checked \in BOOLEAN :
         SvdEnter(inp.rows < inp.cols,
                  bidiagonal_decomp(IF inp.rows < inp.cols THEN transpose(inp) ELSE inp,
                                    checked))
    /\ UNCHANGED inp

\* the outcome s of the scan is stored; q = n - 1 leaves the loop
SvdScanned(s) ==
    /\ st' = [st EXCEPT !.b = s.b, !.p = s.p, !.q = s.q]
    /\ IF s.q = st.b.cols - 1
       THEN pc' = "done" /\ out' = svd_result(st')
       ELSE pc' = "svd_zero" /\ out' = out

\* the scan of the super-diagonal, and the exit when q = n - 1
SvdScan ==
    /\ pc = "svd_scan"
    /\ SvdScanned(svd_scan(st.b))
    /\ UNCHANGED <<op, inp>>

SvdZeroed(r) ==
    IF r.tag = "Ok"
    THEN st' = [st EXCEPT !.b = r.b] /\ pc' = "svd_step" /\ out' = out
    ELSE st' = st /\ pc' = "done" /\ out' = r

\* the explicit rotations of the rows whose diagonal entry is below the threshold
SvdZeroDiag ==
    /\ pc = "svd_zero"
    /\ SvdZeroed(svd_zero_from(st.b, st.p, st.q))
    /\ UNCHANGED <<op, inp>>

SvdStepped(r) ==
    IF r.tag \in {"Err", "Panic", "Rounded"}
    THEN /\ out' = IF r.tag = "Err" THEN SvdErr ELSE r
         /\ pc' = "done"
         /\ st' = st
    ELSE /\ st' = [st EXCEPT !.b = r.b, !.u = r.u, !.v = r.v, !.iter = @ + 1]
         /\ pc' = "svd_scan"
         /\ out' = out

\* one Golub-Kahan step, then around the loop
SvdGolubKahan ==
    /\ pc = "svd_step"
    /\ st.iter < MaxIter
    /\ SvdStepped(golub_kahan_svd_step(st, st.p, st.q))
    /\ UNCHANGED <<op, inp>>

(***************************************************************************)
(* balance_matrix and the Francis shift (francis_shift_eigenvalues,        *)
(* francis_shift_eigendecomp), one pass of the loop on p at a time.        *)
(***************************************************************************)
\* c * c for c = self_m.select_cols(&[i]).norm(): the norm is carried as its square
bal_col_sq(h, n, i) == SumTo(LAMBDA j : QMul(Get(h, j, i), Get(h, j, i)), n)

\* r * r for r = self_m.select_rows(&[i]).norm()
bal_row_sq(h, n, i) == SumTo(LAMBDA j : QMul(Get(h, i, j), Get(h, i, j)), n)

\* while c < r / radix, on t = (c * c, r * r, f)
RECURSIVE bal_up(_)
bal_up(t) ==
    IF QLt(QMul(Four, t[1]), t[2])
    THEN bal_up(<<QMul(Four, t[1]), QDiv(t[2], Four), QMul(Two, t[3])>>)
    ELSE t

\* while c >= r * radix
RECURSIVE bal_down(_)
bal_down(t) ==
    IF QLe(QMul(Four, t[2]), t[1])
    THEN bal_down(<<QDiv(t[1], Four), QMul(Four, t[2]), QDiv(t[3], Two)>>)
    ELSE t

\* column i times f and row i divided by f; the diagonal entry is multiplied and
\* then divided
bal_scaled(h, n, i, f) ==
    MatOf(n, n, LAMBDA a, b : IF a = i /\ b = i THEN QDiv(QMul(f, Get(h, a, b)), f)
                              ELSE IF b = i THEN QMul(f, Get(h, a, b))
                              ELSE IF a = i THEN QDiv(Get(h, a, b), f)
                              ELSE Get(h, a, b))

RECURSIVE bal_sweep(_, _, _, _)

\* the test against 0.95 * s for the scaled norms t, and the rest of the sweep
bal_index(h, n, i, converged, s, t) ==
    IF QLt(QAdd(t[1], t[2]), QMul(Rat(19, 20), s))
    THEN bal_sweep(bal_scaled(h, n, i, t[3]), n, i + 1, FALSE)
    ELSE bal_sweep(h, n, i + 1, converged)

\* index i of the sweep for the squared norms c2 and r2: with a zero row or
\* column one of the two inner loops never ends
bal_norms(h, n, i, converged, c2, r2) ==
    IF c2 = Zero \/ r2 = Zero THEN [tag |-> "Hang"]
    ELSE bal_index(h, n, i, converged, QAdd(c2, r2), bal_down(bal_up(<<c2, r2, One>>)))

\* for i in 0..n
bal_sweep(h, n, i, converged) ==
    IF i >= n THEN [tag |-> "Ok", h |-> h, converged |-> converged]
    ELSE bal_norms(h, n, i, converged, bal_col_sq(h, n, i), bal_row_sq(h, n, i))

RECURSIVE balance_loop(_, _)

balance_next(swept, n) ==
    IF swept.tag # "Ok" \/ swept.converged THEN swept ELSE balance_loop(swept.h, n)

\* while !converged
balance_loop(h, n) == balance_next(bal_sweep(h, n, 0, TRUE), n)

balance_matrix(self_m) == balance_loop(self_m, self_m.rows)

\* eps = 1e-20: a < eps * sum for a >= 0 and sum >= 0.  A scalar of the model has
\* numerator and denominator below 2^31, so a positive a is never below
\* 1e-20 * sum for a finite sum
francis_below_eps(a, sum) ==
    /\ is_finite(a)
    /\ \/ sum = <<1, 0>>
       \/ a = Zero /\ is_finite(sum) /\ QLt(Zero, sum)

francis_s(h, p) == QAdd(Get(h, p - 1, p - 1), Get(h, p, p))

francis_t(h, p) ==
    QSub(QMul(Get(h, p - 1, p - 1), Get(h, p, p)), QMul(Get(h, p - 1, p), Get(h, p, p - 1)))

francis_x(h, p) ==
    QAdd(QSub(QAdd(QMul(Get(h, 0, 0), Get(h, 0, 0)), QMul(Get(h, 0, 1), Get(h, 1, 0))),
              QMul(Get(h, 0, 0), francis_s(h, p))),
         francis_t(h, p))

francis_y(h, p) ==
    QMul(Get(h, 1, 0), QSub(QAdd(Get(h, 0, 0), Get(h, 1, 1)), francis_s(h, p)))

francis_z(h) == QMul(Get(h, 1, 0), Get(h, 2, 1))

\* the Householder transformation on the block [k, r] of 3 rows (on the left)
francis_left(h, n, k, r, householder) ==
    SetBlock(h, k, r, MatMul(householder, Block(h, k, r, 3, n - r)))

\* the Householder transformation on the block [0, k] of r rows (on the right)
francis_right(h, k, r, householder) ==
    SetBlock(h, 0, k, MatMul(Block(h, 0, k, r, 3), transpose(householder)))

\* francis_shift_eigendecomp accumulates the transposes in transformation;
\* francis_shift_eigenvalues has no transformation
francis_trans(w, n, k, width, mat) ==
    IF w.decomp
    THEN SetBlock(w.t, 0, k, MatMul(Block(w.t, 0, k, n, width), transpose(mat)))
    ELSE w.t

francis_failure(w) ==
    IF w.decomp
    THEN Err("DecompFailure", "Could not compute eigen decomposition.")
    ELSE Err("DecompFailure", "Could not compute eigenvalues.")

\* the convergence check at the end of a pass
francis_converge(w, p) ==
    IF francis_below_eps(QAbs(Get(w.h, p, p - 1)),
                         QAdd(QAbs(Get(w.h, p - 1, p - 1)), QAbs(Get(w.h, p, p))))
    THEN [tag |-> "Ok", h |-> SetBlock(w.h, p, p - 1, Matrix(1, 1, <<Zero>>)),
          t |-> w.t, decomp |-> w.decomp, p |-> p - 1]
    ELSE IF francis_below_eps(QAbs(Get(w.h, p - 1, p - 2)),
                              QAdd(QAbs(Get(w.h, p - 2, p - 2)), QAbs(Get(w.h, p - 1, p - 1))))
    THEN [tag |-> "Ok", h |-> SetBlock(w.h, p - 1, p - 2, Matrix(1, 1, <<Zero>>)),
          t |-> w.t, decomp |-> w.decomp, p |-> p - 2]
    ELSE [tag |-> "Ok", h |-> w.h, t |-> w.t, decomp |-> w.decomp, p |-> p]

\* the Givens rotation on the rows q, p of h from column p - 2 (on the left)
francis_rot_left(h, n, p, givens_mat) ==
    SetBlock(h, p - 1, p - 2, MatMul(givens_mat, Block(h, p - 1, p - 2, 2, n - p + 2)))

\* the Givens rotation on the columns q, p of the first p + 1 rows (on the right)
francis_rot_right(h, p, givens_mat) ==
    SetBlock(h, 0, p - 1, MatMul(Block(h, 0, p - 1, p + 1, 2), transpose(givens_mat)))

francis_rotate(w, n, p, givens_mat) ==
    francis_converge([w EXCEPT !.h = francis_rot_right(francis_rot_left(w.h, n, p, givens_mat),
                                                       p, givens_mat),
                               !.t = francis_trans(w, n, p - 1, 2, givens_mat)],
                     p)

\* the part of a pass after the loop on k
francis_givens(w, n, p, x, y) ==
    IF ~givens_known(x, y) THEN Rounded
    ELSE francis_rotate(w, n, p, rot_left(givens_rot(x, y)))

RECURSIVE francis_k_loop(_, _, _, _, _, _, _)

\* x, y and z for the next k
francis_k_next(w, n, p, k, z) ==
    francis_k_loop(w, n, p, k + 1, Get(w.h, k + 1, k), Get(w.h, k + 2, k),
                   IF k < p - 2 THEN Get(w.h, k + 3, k) ELSE z)

francis_k_apply(w, n, p, k, z, householder) ==
    francis_k_next([w EXCEPT !.h = francis_right(francis_left(w.h, n, k, MaxI(1, k) - 1,
                                                              householder),
                                                 k, MinI(k + 4, p + 1), householder),
                             !.t = francis_trans(w, n, k, 3, householder)],
                   n, p, k, z)

\* the body of the loop on k for the result made of make_householder(&[x, y, z])
francis_k_step(w, n, p, k, z, made) ==
    IF made.tag = "Err" THEN francis_failure(w)
    ELSE IF made.tag # "Ok" THEN made
    ELSE francis_k_apply(w, n, p, k, z, made.h)

\* for k in 0..p - 1, then the Givens rotation and the convergence check
francis_k_loop(w, n, p, k, x, y, z) ==
    IF k >= p - 1 THEN francis_givens(w, n, p, x, y)
    ELSE francis_k_step(w, n, p, k, z, make_householder(<<x, y, z>>))

\* one pass of while p > 1 on w = [h, t, decomp, p]
francis_pass(w, n) ==
    francis_k_loop(w, n, w.p, 0, francis_x(w.h, w.p), francis_y(w.h, w.p), francis_z(w.h))

\* the locals of the loop once h is balanced
francis_locals(balanced, transformation, u, decomp, n) ==
    [h |-> balanced.h, t |-> transformation, u |-> u, decomp |-> decomp, p |-> n - 1,
     iter |-> 0]

FrancisBalanced(balanced, u, decomp) ==
    IF balanced.tag = "Ok"
    THEN /\ st' = francis_locals(balanced, identity(inp.rows), u, decomp, inp.rows)
         /\ pc' = "francis"
         /\ out' = out
    ELSE /\ pc' = "balance_matrix"
         /\ UNCHANGED <<st, out>>

FrancisReduced(reduced, decomp, failure) ==
    IF reduced.tag = "Ok"
    THEN FrancisBalanced(balance_matrix(reduced.h),
                         IF decomp THEN reduced.t ELSE identity(inp.rows), decomp)
    ELSE /\ out' = IF reduced.tag = "Err" THEN failure ELSE reduced
         /\ pc' = "done"
         /\ st' = st

\* francis_shift_eigenvalues up to the loop: upper_hessenberg, balance_matrix and
\* p = n - 1; a balance_matrix that does not end stays in "balance_matrix"
FrancisEigenvaluesStart ==
    /\ pc = "ready"
    /\ inp.rows = inp.cols /\ inp.rows > 2
    /\ op' = "eigenvalues"
    /\ FrancisReduced(upper_hessenberg(inp, TRUE), FALSE,
                      Err("DecompFailure", "Could not compute eigenvalues."))
    /\ inp' = inp

\* francis_shift_eigendecomp up to the loop: upper_hess_decomp, balance_matrix and
\* p = n - 1
FrancisEigendecompStart ==
    /\ pc = "ready"
    /\ inp.rows = inp.cols /\ inp.rows > 2
    /\ op' = "eigendecomp"
    /\ FrancisReduced(upper_hess_decomp(inp, TRUE), TRUE,
                      Err("DecompFailure", "Could not compute eigen decomposition."))
    /\ inp' = inp

FrancisPassed(passed) ==
    IF passed.tag = "Ok"
    THEN /\ st' = [st EXCEPT !.h = passed.h, !.t = passed.t, !.p = passed.p,
                             !.iter = @ + 1]
         /\ UNCHANGED <<pc, out>>
    ELSE /\ out' = passed
         /\ pc' = "done"
         /\ st' = st

\* one pass of while p > 1
FrancisPass ==
    /\ pc = "francis"
    /\ st.p > 1
    /\ st.iter < MaxIter
    /\ FrancisPassed(francis_pass(st, inp.rows))
    /\ UNCHANGED <<op, inp>>

francis_diag(h) == [i \in 1..h.rows |-> Get(h, i - 1, i - 1)]

\* the loop is left with p <= 1: Ok(h.diag()), with u * transformation in
\* francis_shift_eigendecomp
FrancisReturn ==
    /\ pc = "francis"
    /\ st.p <= 1
    /\ out' = IF st.decomp
              THEN [tag |-> "Ok", e |-> francis_diag(st.h), m |-> MatMul(st.u, st.t)]
              ELSE [tag |-> "Ok", e |-> francis_diag(st.h)]
    /\ pc' = "done"
    /\ UNCHANGED <<op, inp, st>>

(***************************************************************************)
(* Inputs.                                                                 *)
(***************************************************************************)
Vals == {FromInt(k) : k \in (-MaxVal)..MaxVal}

\* every n x n matrix with entries in Vals
SquareOver(n, V) == {Matrix(n, n, d) : d \in [1..(n * n) -> V]}

\* 0/1 rows of length n with one or two ones
SparseRows(n) ==
    {r \in [1..n -> {0, 1}] : Cardinality({k \in 1..n : r[k] = 1}) \in {1, 2}}

\* n x n matrices with rows in SparseRows(n), scaled by a non-zero value of Vals
SparseOver(n) ==
    {MatOf(n, n, LAMBDA i, j : QMul(c, FromInt(rs[i + 1][j + 1]))) :
        rs \in [1..n -> SparseRows(n)], c \in Vals \ {Zero}}

\* the square inputs: all of dimension up to maxn, and the sparse ones of the next
LupInputs(maxn) == UNION {SquareOver(n, Vals) : n \in 1..maxn} \cup SparseOver(maxn + 1)

\* values with rational Euclidean norms among them: 0, -3k and 4k
PythVals ==
    {Zero} \cup {FromInt(-3 * k) : k \in 1..MaxScale} \cup {FromInt(4 * k) : k \in 1..MaxScale}

\* every r x c matrix with entries in V
RectOver(r, c, V) == {Matrix(r, c, d) : d \in [1..(r * c) -> V]}

\* the shapes with at most MaxCells entries
Shapes == {sh \in (1..MaxCells) \X (1..MaxCells) : sh[1] * sh[2] <= MaxCells}

\* the rectangular inputs of at most cells entries
RectInputs(cells) ==
    UNION {RectOver(sh[1], sh[2], PythVals) : sh \in {x \in Shapes : x[1] * x[2] <= cells}}

(***************************************************************************)
(* The operations as actions: a call takes the input to its result.        *)
(***************************************************************************)
NoResult == [tag |-> "None"]
NoLocals == [i |-> 0]

Ready == pc = "ready" /\ op = "none" /\ st = NoLocals /\ out = NoResult

CallLupDecomp ==
    /\ pc = "ready"
    /\ op' = "lup_decomp"
    /\ out' = lup_decomp(inp)
    /\ pc' = "done"
    /\ UNCHANGED <<inp, st>>

CallInverse ==
    /\ pc = "ready"
    /\ op' = "inverse"
    /\ out' = inverse(inp)
    /\ pc' = "done"
    /\ UNCHANGED <<inp, st>>

CallDet ==
    /\ pc = "ready"
    /\ op' = "det"
    /\ out' = det(inp)
    /\ pc' = "done"
    /\ UNCHANGED <<inp, st>>

\* the right-hand sides of solve: 0/1 vectors of length n
SolveVectors(n) == [1..n -> {Zero, One}]

CallSolve ==
    /\ pc = "ready"
    /\ \E y \in SolveVectors(inp.cols) :
          /\ out' = solve(inp, y)
          /\ st' = [i |-> 0, y |-> y]
    /\ op' = "solve"
    /\ pc' = "done"
    /\ UNCHANGED inp

CallUpperHessenberg ==
    /\ pc = "ready"
    /\ \E checked \in BOOLEAN : out' = upper_hessenberg(inp, checked)
    /\ op' = "upper_hessenberg"
    /\ pc' = "done"
    /\ UNCHANGED <<inp, st>>

CallUpperHessDecomp ==
    /\ pc = "ready"
    /\ \E checked \in BOOLEAN : out' = upper_hess_decomp(inp, checked)
    /\ op' = "upper_hess_decomp"
    /\ pc' = "done"
    /\ UNCHANGED <<inp, st>>

InitLup == Ready /\ inp \in LupInputs(MaxN)

NextLup == CallLupDecomp \/ CallInverse \/ CallDet

Spec == InitLup /\ [][NextLup]_vars

InitQR == Ready /\ inp \in RectInputs(MaxCells)

NextQR == QrStart \/ QrReflect \/ QrRounded \/ QrFail \/ QrReturn

SpecQR == InitQR /\ [][NextQR]_vars

\* the rectangular inputs and the square ones of dimension MaxN
BidiagInputs(cells, n) == RectInputs(cells) \cup SquareOver(n, PythVals)

InitBidiag == Ready /\ inp \in BidiagInputs(MaxCells, MaxN)

NextBidiag == CallBidiagonalDecomp

SpecBidiag == InitBidiag /\ [][NextBidiag]_vars

\* the 1 x 1 and 2 x 2 matrices with entries in -maxval-2..maxval+2
EigInputs(maxval) ==
    LET V == {FromInt(k) : k \in (-maxval - 2)..(maxval + 2)}
    IN  SquareOver(1, V) \cup SquareOver(2, V)

InitEig == Ready /\ inp \in EigInputs(MaxVal)

NextEig == CallEigenvalues \/ CallEigendecomp

SpecEig == InitEig /\ [][NextEig]_vars

\* the square matrices of dimension up to 2 with entries in -maxval-2..maxval+2
\* and those of dimension 3 with entries in 0..maxval+1 (squares: 0, 1, 4)
CholInputs(maxval) ==
    EigInputs(maxval) \cup SquareOver(3, {FromInt(k * k) : k \in 0..(maxval + 1)})

InitChol == Ready /\ inp \in CholInputs(MaxVal)

NextChol == CallCholesky

SpecChol == InitChol /\ [][NextChol]_vars

\* 0, 1, -1 and the small values -3/(5s) and 4/(5s): for s = SmallInv they lie
\* below min_positive_value and have rational norms among them
SvdVals(sinv) ==
    {Zero, One, QNeg(One), Rat(-3, 5 * sinv), Rat(4, 5 * sinv)}

\* upper bidiagonal n x n matrices with entries in V
BidiagOver(n, V) ==
    {MatOf(n, n, LAMBDA i, j : IF j = i THEN d[i + 1]
                               ELSE IF j = i + 1 THEN e[i + 1] ELSE Zero) :
        d \in [1..n -> V], e \in [1..(n - 1) -> V]}

\* the inputs of svd: the rectangular inputs, the 2 x 2 matrices and the upper
\* bidiagonal 3 x 3 matrices over SvdVals
SvdInputs(cells, sinv) ==
    RectInputs(cells) \cup SquareOver(2, SvdVals(sinv)) \cup BidiagOver(3, SvdVals(sinv))

InitSvd == Ready /\ inp \in SvdInputs(MaxCells, SmallInv)

NextSvd == SvdStart \/ SvdScan \/ SvdZeroDiag \/ SvdGolubKahan

SpecSvd == InitSvd /\ [][NextSvd]_vars

\* the operations that require a square matrix, on inputs of every shape
InitOps == Ready /\ inp \in RectInputs(MaxCells)

NextOps ==
    \/ CallLupDecomp \/ CallCholesky \/ CallUpperHessenberg \/ CallUpperHessDecomp
    \/ CallEigenvalues \/ CallEigendecomp \/ CallSolve \/ CallInverse \/ CallDet

SpecOps == InitOps /\ [][NextOps]_vars

\* values with the rational norm 25 among them whose reflectors are rational
HessVals == {Zero, FromInt(7), FromInt(24)}

\* the n x n matrices whose first k columns are over V and whose other columns
\* are zero
LeftColumnsOver(n, k, V) ==
    {MatOf(n, n, LAMBDA i, j : IF j < k THEN d[i * k + j + 1] ELSE Zero) :
        d \in [1..(n * k) -> V]}

\* the inputs of the Hessenberg reduction: every matrix of dimension 2 to n over
\* HessVals, and those of dimension n + 1 with two non-zero columns
HessInputs(n) ==
    UNION {SquareOver(k, HessVals) : k \in 2..n} \cup LeftColumnsOver(n + 1, 2, HessVals)

InitHess == Ready /\ inp \in HessInputs(MaxN)

NextHess == CallUpperHessenberg \/ CallUpperHessDecomp

SpecHess == InitHess /\ [][NextHess]_vars

\* the 3 x 3 matrices over V with a last row (0, 0, d)
LastRowReduced(V) ==
    {m \in SquareOver(3, V) : Get(m, 2, 0) = Zero /\ Get(m, 2, 1) = Zero}

\* the 3 x 3 matrices with the entries a, b, c of V at [0,2], [1,0], [2,1] and
\* zeros elsewhere
CyclicOver(V) ==
    {Matrix(3, 3, <<Zero, Zero, a, b, Zero, Zero, Zero, c, Zero>>) : a, b, c \in V}

\* the inputs of the Francis shift, on which the scalars of every pass stay
\* within the range of the model
FrancisInputs == LastRowReduced(HessVals) \cup CyclicOver(HessVals \ {Zero})

InitFrancis == Ready /\ inp \in FrancisInputs

NextFrancis ==
    FrancisEigenvaluesStart \/ FrancisEigendecompStart \/ FrancisPass \/ FrancisReturn

SpecFrancis == InitFrancis /\ [][NextFrancis]_vars

\* every operation of the trait on the inputs of every shape, and on the
\* 3 x 3 matrices over 0 and 7 with a last row (0, 0, d)
AllInputs(cells) == RectInputs(cells) \cup LastRowReduced({Zero, FromInt(7)})

InitAll == Ready /\ inp \in AllInputs(MaxCells)

NextAll ==
    \/ CallSolve \/ CallInverse \/ CallDet \/ CallCholesky \/ CallLupDecomp
    \/ QrStart \/ QrReturn \/ QrFail \/ QrReflect \/ QrRounded
    \/ CallBidiagonalDecomp
    \/ SvdStart \/ SvdScan \/ SvdZeroDiag \/ SvdGolubKahan
    \/ CallUpperHessenberg \/ CallUpperHessDecomp
    \/ CallEigenvalues \/ CallEigendecomp
    \/ FrancisEigenvaluesStart \/ FrancisEigendecompStart \/ FrancisPass \/ FrancisReturn

SpecAll == InitAll /\ [][NextAll]_vars

\* make_householder(column) for the column held in inp
CallMakeHouseholder ==
    /\ pc = "ready"
    /\ op' = "make_householder"
    /\ out' = make_householder(inp.data)
    /\ pc' = "done"
    /\ UNCHANGED <<inp, st>>

\* make_householder_vec(column) for the column held in inp
CallMakeHouseholderVec ==
    /\ pc = "ready"
    /\ op' = "make_householder_vec"
    /\ out' = make_householder_vec(inp.data)
    /\ pc' = "done"
    /\ UNCHANGED <<inp, st>>

\* 0 and the values 1, 2, 3, 4, 7, 24 of either sign: (3, 4), (7, 24) and
\* (1, 2, 2) have rational norms
ColumnVals == {FromInt(k) : k \in {-24, -7, -4, -3, -2, -1, 0, 1, 2, 3, 4, 7, 24}}

\* the columns of length 0 to n over ColumnVals, as n x 1 matrices
ColumnInputs(n) ==
    UNION {{Matrix(k, 1, d) : d \in [1..k -> ColumnVals]} : k \in 0..n}

InitHouseholder == Ready /\ inp \in ColumnInputs(MaxN)

NextHouseholder == CallMakeHouseholder \/ CallMakeHouseholderVec

SpecHouseholder == InitHouseholder /\ [][NextHouseholder]_vars

(***************************************************************************)
(* Reference notions the properties are stated against.                    *)
(***************************************************************************)
\* m with row i and column j removed
Minor(m, i, j) ==
    MatOf(m.rows - 1, m.cols - 1,
          LAMBDA r, c : Get(m, IF r < i THEN r ELSE r + 1, IF c < j THEN c ELSE c + 1))

RECURSIVE Determinant(_)
\* the determinant by cofactor expansion along the first row
Determinant(m) ==
    IF m.rows = 1 THEN Get(m, 0, 0)
    ELSE LET term(j) == QMul(QMul(IF j % 2 = 0 THEN One ELSE QNeg(One), Get(m, 0, j)),
                             Determinant(Minor(m, 0, j)))
         IN  SumTo(term, m.cols)

IsPermutationMatrix(p) ==
    /\ p.rows = p.cols
    /\ \A i \in 0..(p.rows - 1), j \in 0..(p.cols - 1) : Get(p, i, j) \in {Zero, One}
    /\ \A i \in 0..(p.rows - 1) :
          Cardinality({j \in 0..(p.cols - 1) : Get(p, i, j) = One}) = 1
    /\ \A j \in 0..(p.cols - 1) :
          Cardinality({i \in 0..(p.rows - 1) : Get(p, i, j) = One}) = 1

IsLowerTriangular(m) ==
    \A i \in 0..(m.rows - 1), j \in 0..(m.cols - 1) : j > i => Get(m, i, j) = Zero

IsUpperTriangular(m) ==
    \A i \in 0..(m.rows - 1), j \in 0..(m.cols - 1) : j < i => Get(m, i, j) = Zero

HasUnitDiagonal(m) == \A i \in 0..(m.rows - 1) : Get(m, i, i) = One

IsShape(m, r, c) == m.rows = r /\ m.cols = c /\ Len(m.data) = r * c

Done(name) == pc = "done" /\ op = name

(***************************************************************************)
(* Properties.                                                             *)
(***************************************************************************)
\* C1: whenever lup_decomp returns Ok((L,U,P)) for an n x n matrix A, P is a
\* permutation matrix, L is lower-triangular with unit diagonal, U is
\* upper-triangular, and L*U = P*A exactly.
C1_LupFactors ==
    (Done("lup_decomp") /\ out.tag = "Ok") =>
        /\ IsShape(out.l, inp.rows, inp.rows)
        /\ IsShape(out.u, inp.rows, inp.rows)
        /\ IsPermutationMatrix(out.p) /\ out.p.rows = inp.rows
        /\ IsLowerTriangular(out.l) /\ HasUnitDiagonal(out.l)
        /\ IsUpperTriangular(out.u)
        /\ MatMul(out.l, out.u) = MatMul(out.p, inp)

\* a 3 x 3 factorization with a row exchange and a non-trivial L
C1_Witness ==
    /\ Done("lup_decomp") /\ out.tag = "Ok" /\ inp.rows = 3
    /\ out.p # identity(3)
    /\ out.l # identity(3)
    /\ Get(out.u, 1, 2) # Zero

\* C2: for every square invertible matrix A, inverse() returns Ok(M) (never
\* an Err and never a panic) and A*M is the identity matrix.
C2_InverseOfInvertible ==
    (Done("inverse") /\ Determinant(inp) # Zero) =>
        /\ out.tag = "Ok"
        /\ MatMul(inp, out.m) = identity(inp.rows)

\* C3: det returns the exact determinant of its input (diagonal product for
\* diagonal matrices, the closed forms for 2 x 2 and 3 x 3, parity(P) times the
\* product of U's diagonal for non-diagonal n >= 4 whenever LUP succeeds).
C3_DetExact ==
    Done("det") =>
        /\ out.tag = "Ok" => out.d = Determinant(inp)
        /\ (is_diag(inp) \/ inp.rows <= 3 \/ lup_decomp(inp).tag = "Ok") => out.tag = "Ok"

\* a non-diagonal 4 x 4 input whose LUP exchanges rows an odd number of times
C3_Witness ==
    /\ Done("det") /\ out.tag = "Ok" /\ inp.rows = 4 /\ ~is_diag(inp)
    /\ parity(lup_decomp(inp).p) = QNeg(One)
    /\ out.d # Zero

\* C4: for every singular square matrix of any size, including non-diagonal
\* matrices with n >= 4 that take the LUP path, det returns 0 rather than
\* terminating with a failure.
C4_DetOfSingularIsZero ==
    (Done("det") /\ Determinant(inp) = Zero) => (out.tag = "Ok" /\ out.d = Zero)

\* C5: qr_decomp accepts any m x n matrix (tall, square or wide): one reflector
\* step for each i in 0 .. n - (1 if m == n else 0), each built from the non-empty
\* sub-column R[i..m-1, i]; Q*R = A after every step, starting from Q = I_m and
\* R = A; Q is m x m and R is m x n; Err only when a sub-column is entirely zero.
C5_QrAnyShape ==
    op = "qr_decomp" =>
        /\ st.i <= qr_steps(inp.rows, inp.cols)
        /\ st.i < qr_steps(inp.rows, inp.cols) => st.i < inp.rows
        /\ IsShape(st.q, inp.rows, inp.rows) /\ IsShape(st.r, inp.rows, inp.cols)
        /\ MatMul(st.q, st.r) = inp
        /\ (pc = "done" /\ out.tag = "Ok") =>
              /\ st.i = qr_steps(inp.rows, inp.cols)
              /\ out.q = st.q /\ out.r = st.r
        /\ (pc = "done" /\ out.tag = "Err") =>
              LET column == qr_lower_slice(st.r, inp.rows, st.i)
              IN  Len(column) > 0 /\ \A k \in 1..Len(column) : column[k] = Zero
        /\ pc = "done" => out.tag # "Panic"

IsUpperBidiagonal(b) ==
    \A i \in 0..(b.rows - 1), j \in 0..(b.cols - 1) :
        (j # i /\ j # i + 1) => Get(b, i, j) = Zero

IsLowerBidiagonal(b) ==
    \A i \in 0..(b.rows - 1), j \in 0..(b.cols - 1) :
        (j # i /\ j + 1 # i) => Get(b, i, j) = Zero

Char2(m, x) ==
    QAdd(QSub(QMul(x, x), QMul(QAdd(Get(m, 0, 0), Get(m, 1, 1)), x)), Determinant(m))

\* C8: eigenvalues returns [a] for a 1 x 1 matrix [[a]]; for a 2 x 2 matrix it
\* returns Err(DecompFailure) exactly when tr^2 - 4 det < 0, and otherwise the two
\* roots (tr -+ sqrt(tr^2 - 4 det))/2 of the characteristic polynomial in
\* ascending order, with sum tr and product det.
C8_DirectEigenvalues ==
    Done("eigenvalues") =>
        LET tr == QAdd(Get(inp, 0, 0), Get(inp, 1, 1))
            negative == QLt(QSub(QMul(tr, tr), QMul(FromInt(4), Determinant(inp))), Zero)
        IN  /\ inp.rows = 1 => out = [tag |-> "Ok", e |-> <<Get(inp, 0, 0)>>]
            /\ (inp.rows = 2 /\ negative) => (out.tag = "Err" /\ out.kind = "DecompFailure")
            /\ (inp.rows = 2 /\ ~negative) => out.tag \in {"Ok", "Rounded"}
            /\ (inp.rows = 2 /\ out.tag = "Ok") =>
                  /\ Len(out.e) = 2
                  /\ QLe(out.e[1], out.e[2])
                  /\ QAdd(out.e[1], out.e[2]) = tr
                  /\ QMul(out.e[1], out.e[2]) = Determinant(inp)
                  /\ Char2(inp, out.e[1]) = Zero /\ Char2(inp, out.e[2]) = Zero

\* a 2 x 2 input with two distinct non-zero eigenvalues
C8_Witness ==
    /\ Done("eigenvalues") /\ out.tag = "Ok" /\ inp.rows = 2
    /\ QLt(out.e[1], out.e[2])
    /\ out.e[1] # Zero /\ out.e[2] # Zero
    /\ Get(inp, 0, 1) # Zero /\ Get(inp, 1, 0) # Zero

\* column k (0-based) of a matrix, as a sequence
Column(m, k) == [i \in 1..m.rows |-> Get(m, i - 1, k)]

\* C9: for every 2 x 2 matrix A with real eigenvalues (including diagonal and
\* triangular A), eigendecomp returns (lambda, V) such that for k = 0 and k = 1
\* column k of V is non-zero and A * V[:,k] = lambda[k] * V[:,k].
C9_EigenvectorsMatch ==
    (Done("eigendecomp") /\ inp.rows = 2 /\ out.tag = "Ok") =>
        \A k \in 0..1 :
            LET vk == Column(out.m, k)
            IN  /\ vk # <<Zero, Zero>>
                /\ MatVec(inp, vk) = [i \in 1..2 |-> QMul(out.e[k + 1], vk[i])]

Symmetric(m) == m = transpose(m)

\* Sylvester's criterion: symmetric with positive leading principal minors
PositiveDefinite(m) ==
    /\ Symmetric(m)
    /\ \A k \in 1..m.rows : QLt(Zero, Determinant(Block(m, 0, 0, k, k)))

\* C10: for every square input that is not positive definite (including inputs
\* where the residual under the square root of some diagonal entry, possibly the
\* last one, is negative or zero), cholesky returns Err(DecompFailure); it never
\* returns Ok with a non-finite entry in L.
C10_CholeskyRejects ==
    Done("cholesky") =>
        /\ (~PositiveDefinite(inp) /\ out.tag # "Rounded") =>
              (out.tag = "Err" /\ out.kind = "DecompFailure")
        /\ out.tag = "Ok" => \A k \in 1..Len(out.l.data) : is_finite(out.l.data[k])

\* U * B * V^T for the working matrices of svd
SvdProduct(w) == MatMul(MatMul(w.u, w.b), transpose(w.v))

\* C7: in svd, every rotation applied to B inside the convergence loop (the
\* explicit Givens rotation for a negligible diagonal entry and each rotation of
\* the Golub-Kahan step) is matched by the same rotation accumulated into V or U,
\* so the product U * B * V^T is unchanged by each such step, and the returned
\* triple reconstructs the input matrix with the input's shape.
C7_RotationsPreserveProduct ==
    /\ [][(pc \in {"svd_zero", "svd_step"} /\ pc' \in {"svd_step", "svd_scan"})
             => SvdProduct(st') = SvdProduct(st)]_vars
    /\ []((Done("svd") /\ out.tag = "Ok") =>
             MatMul(MatMul(out.u, out.b), transpose(out.v)) = inp)

SquareOnly ==
    {"lup_decomp", "cholesky", "upper_hessenberg", "upper_hess_decomp", "eigenvalues",
     "eigendecomp", "solve", "inverse", "det"}

\* C11: calling lup_decomp, cholesky, upper_hessenberg, upper_hess_decomp,
\* eigenvalues, eigendecomp, solve, inverse or det on a matrix whose row count
\* differs from its column count ends in a panic, never in an Ok or Err result.
C11_NonSquarePanics ==
    (pc = "done" /\ op \in SquareOnly /\ inp.rows # inp.cols) => out.tag = "Panic"

\* solve has been called on a 2 x 3 matrix
C11_Witness ==
    /\ Done("solve") /\ inp.rows = 2 /\ inp.cols = 3
    /\ out.tag = "Panic"

\* a_2 = p * self for the permutation lup_decomp builds
PermutedInput(m) ==
    MatMul(Matrix(m.cols, m.cols, lup_perm(identity(m.cols).data, transpose(m), m.cols, 0)), m)

\* the leading principal minor of order k
LeadingMinor(m, k) == Determinant(Block(m, 0, 0, k, k))

\* C12: lup_decomp returns Err(DecompFailure) exactly when, for some column i
\* taken in increasing order, the pivot U[i,i] computed from P*A is zero (the pivot
\* of column i is the quotient of the leading minors of orders i+1 and i, so this
\* is when some leading minor of P*A vanishes); the Err carries no L, U or P, and
\* every other call returns Ok.
C12_LupFailsOnZeroPivot ==
    (Done("lup_decomp") /\ inp.rows = inp.cols) =>
        LET zeroPivot == \E k \in 1..inp.rows : LeadingMinor(PermutedInput(inp), k) = Zero
        IN  /\ zeroPivot =>
                  /\ out.tag = "Err" /\ out.kind = "DecompFailure"
                  /\ DOMAIN out = {"tag", "kind", "msg"}
            /\ ~zeroPivot => out.tag = "Ok"

\* a 3 x 3 input, rows exchanged, whose first two pivots are non-zero and whose
\* last pivot is zero
C12_Witness ==
    /\ Done("lup_decomp") /\ inp.rows = 3 /\ out.tag = "Err"
    /\ PermutedInput(inp) # inp
    /\ LeadingMinor(PermutedInput(inp), 1) # Zero
    /\ LeadingMinor(PermutedInput(inp), 2) # Zero

\* C13: a composite operation (solve, inverse) that receives an Err from its
\* sub-decomposition lup_decomp returns its own Err of kind DecompFailure with its
\* own message, never the error value of the sub-decomposition unchanged.
C13_ErrorsRewritten ==
    (pc = "done" /\ op \in {"solve", "inverse"} /\ lup_decomp(inp).tag = "Err") =>
        /\ out.tag = "Err" /\ out.kind = "DecompFailure"
        /\ out # lup_decomp(inp)

\* zero below the sub-diagonal
IsUpperHessenberg(h) ==
    \A j \in 0..(h.rows - 1), i \in 0..(h.cols - 1) : j >= i + 2 => Get(h, j, i) = Zero

\* C14: whenever upper_hessenberg or upper_hess_decomp returns Ok for an n x n
\* input with n >= 2, the returned H is n x n and H[j,i] is zero for every j >= i+2;
\* for n = 2 no reflector is applied and H equals the input.
C14_HessenbergShape ==
    (pc = "done" /\ op \in {"upper_hessenberg", "upper_hess_decomp"}
        /\ out.tag = "Ok" /\ inp.rows >= 2) =>
        /\ IsShape(out.h, inp.rows, inp.rows)
        /\ IsUpperHessenberg(out.h)
        /\ inp.rows = 2 => out.h = inp

\* a 4 x 4 input with non-zero entries below the sub-diagonal in two columns
C14_Witness ==
    /\ Done("upper_hessenberg") /\ out.tag = "Ok" /\ inp.rows = 4
    /\ Get(inp, 3, 0) # Zero /\ Get(inp, 3, 1) # Zero
    /\ Get(out.h, 1, 0) # Zero /\ Get(out.h, 2, 1) # Zero

\* C15: for every square A of size n >= 3 on which upper_hess_decomp returns
\* Ok((T, H)), T is the product of the reflectors that reduce A to H, so that
\* T^T * A * T = H.
C15_HessTransform ==
    (Done("upper_hess_decomp") /\ out.tag = "Ok" /\ inp.rows >= 3) =>
        MatMul(MatMul(transpose(out.t), inp), out.t) = out.h

\* the first row r in i..n-1 holding the greatest (signed) value of column i of a
\* restricted to rows i..n-1
ColumnMaxRow(a, n, i) ==
    CHOOSE r \in i..(n - 1) :
        /\ \A k \in i..(n - 1) : QLe(Get(a, k, i), Get(a, r, i))
        /\ \A k \in i..(r - 1) : QLt(Get(a, k, i), Get(a, r, i))

\* p with rows i and r exchanged
RowsSwapped(p, i, r) ==
    MatOf(p.rows, p.cols,
          LAMBDA j, c : Get(p, IF j = i THEN r ELSE IF j = r THEN i ELSE j, c))

RECURSIVE PivotedPermutation(_, _, _, _)
\* for i from 0 to n-1: rows i and ColumnMaxRow of p are exchanged when they differ
PivotedPermutation(p, a, n, i) ==
    IF i >= n THEN p
    ELSE PivotedPermutation(IF ColumnMaxRow(a, n, i) # i
                            THEN RowsSwapped(p, i, ColumnMaxRow(a, n, i)) ELSE p,
                            a, n, i + 1)

\* C16: while building P, for each i from 0 to n-1 lup_decomp finds the first row
\* r in i..n-1 holding the maximum signed value of column i of A restricted to rows
\* i..n-1 and, when r # i, swaps rows i and r of P: the swap partner is the absolute
\* row index of that column maximum.
C16_PivotIsColumnMaximum ==
    (Done("lup_decomp") /\ inp.rows = inp.cols) =>
        lup_perm(identity(inp.cols).data, transpose(inp), inp.cols, 0)
            = PivotedPermutation(identity(inp.cols), inp, inp.cols, 0).data

\* the entries H[i+1, i] below the diagonal of h are all zero
SubDiagonalZero(h) == \A i \in 0..(h.rows - 2) : Get(h, i + 1, i) = Zero

\* a pass of the Francis loop leaves p, or takes it to p - 1 with H[p, p-1] set
\* to zero, or to p - 2 with H[p-1, p-2] set to zero, never below 0
FrancisDeflates ==
    (pc = "francis" /\ pc' = "francis") =>
        /\ st'.p >= 0
        /\ \/ st'.p = st.p
           \/ st'.p = st.p - 1 /\ Get(st'.h, st.p, st.p - 1) = Zero
           \/ st'.p = st.p - 2 /\ Get(st'.h, st.p - 1, st.p - 2) = Zero

\* C17: the loops of francis_shift_eigenvalues and francis_shift_eigendecomp
\* start with p = n - 1, every pass leaves p unchanged or lowers it by 1 after
\* zeroing H[p, p-1] or by 2 after zeroing H[p-1, p-2], the loop is left exactly
\* when p <= 1, and on every Ok return every entry H[i+1, i] has been set to zero
C17_FrancisDeflation ==
    /\ [][(pc = "ready" /\ pc' = "francis") => st'.p = inp.rows - 1]_vars
    /\ [][FrancisDeflates]_vars
    /\ [][(pc = "francis" /\ pc' = "done" /\ out'.tag = "Ok") => st.p <= 1]_vars
    /\ []((pc = "done" /\ op \in {"eigenvalues", "eigendecomp"} /\ out.tag = "Ok"
           /\ inp.rows > 2)
          => SubDiagonalZero(st.h))

\* the steps of p alone: they hold on every behaviour
FrancisPSteps ==
    /\ [][(pc = "ready" /\ pc' = "francis") => st'.p = inp.rows - 1]_vars
    /\ [][FrancisDeflates]_vars
    /\ [][(pc = "francis" /\ pc' = "done" /\ out'.tag = "Ok") => st.p <= 1]_vars

\* every entry B[i, i+1] of b is zero
SuperDiagonalZero(b) == \A i \in 0..(b.cols - 2) : Get(b, i, i + 1) = Zero

\* svd returns Ok only from the scan, with q = n - 1 and a B whose super-diagonal
\* is zero: it holds on every behaviour
SvdExitAtConvergence ==
    [][(pc # "done" /\ pc' = "done" /\ op' = "svd" /\ out'.tag = "Ok")
       => /\ pc = "svd_scan"
          /\ st'.q = st'.b.cols - 1
          /\ SuperDiagonalZero(st'.b)]_vars

\* C18: svd leaves its loop with Ok only when the scan finds q = n - 1, and then
\* every super-diagonal entry of B is zero; for an input with n = 1 the first
\* scan leaves the loop at once, so svd returns Ok without a Golub-Kahan step
C18_SvdExit ==
    /\ SvdExitAtConvergence
    /\ []((pc = "done" /\ op = "svd" /\ MinI(inp.rows, inp.cols) = 1)
          => (out.tag = "Ok" /\ st.iter = 0))

\* |B[i,i+1]| <= min_positive_value * (|B[i,i]| + |B[i+1,i+1]|)
NegligibleSuperDiagonal(b, i) ==
    QLe(QAbs(Get(b, i, i + 1)),
        QMul(min_positive_value, QAdd(QAbs(Get(b, i, i)), QAbs(Get(b, i + 1, i + 1)))))

\* the scan counts entry i of b towards q when it meets it on the lower block
ScanTakesAsConverged(b, i) ==
    svd_scan_entry([b |-> b, q |-> 0, on_lower |-> TRUE, p |-> 0, on_middle |-> FALSE], i).q = 1

\* C19: whenever svd scans B, the scan treats super-diagonal entry i as converged
\* exactly when |B[i,i+1]| <= min_positive_value * (|B[i,i]| + |B[i+1,i+1]|); an
\* entry that is exactly zero is treated as converged
C19_ScanThreshold ==
    pc = "svd_scan" =>
        \A i \in 0..(st.b.cols - 2) :
            /\ ScanTakesAsConverged(st.b, i) <=> NegligibleSuperDiagonal(st.b, i)
            /\ Get(st.b, i, i + 1) = Zero => ScanTakesAsConverged(st.b, i)

\* the rows p <= i < n - q - 1 of the explicit rotations
SvdWindow(w) == w.p..(w.b.cols - w.q - 2)

\* the statement of the specification: the rotation of a row with a small
\* diagonal entry leaves that diagonal entry zero
C20_DiagonalZeroed ==
    [][(pc = "svd_zero" /\ pc' = "svd_step")
       => \A i \in SvdWindow(st) : svd_small(st.b, i) => Get(st'.b, i, i) = Zero]_vars

\* C20: for each i with p <= i < n - q - 1 and |B[i,i]| below the minimum
\* positive value, the rotation built from (B[i,i], B[i,i+1]) is applied to row i
\* so that afterwards the super-diagonal entry B[i,i+1] is zero and the diagonal
\* entry B[i,i] is the hypotenuse of the two
C20_SuperDiagonalZeroed ==
    [][(pc = "svd_zero" /\ pc' = "svd_step")
       => \A i \in SvdWindow(st) :
              svd_small(st.b, i)
              => /\ Get(st'.b, i, i + 1) = Zero
                 /\ Get(st'.b, i, i) = hypot(Get(st.b, i, i), Get(st.b, i, i + 1))]_vars

\* B as the first scan leaves it
FirstScanned(a) ==
    svd_scan(bidiagonal_decomp(IF a.rows < a.cols THEN transpose(a) ELSE a, TRUE).b).b

\* the first pass has rotated a row whose diagonal entry was small and whose
\* super-diagonal entry was not zero
C20_Witness ==
    /\ pc = "svd_step" /\ st.iter = 0
    /\ \E i \in SvdWindow(st) :
           /\ svd_small(FirstScanned(inp), i)
           /\ Get(FirstScanned(inp), i, i + 1) # Zero
           /\ Get(st.b, i, i + 1) = Zero
           /\ Get(st.b, i, i) # Zero

\* the window handed to golub_kahan_svd_step lies inside B and is bordered by
\* zero super-diagonal entries: it holds on every behaviour
SvdWindowInside ==
    pc = "svd_step" =>
        /\ st.q <= st.b.cols - 2
        /\ st.p <= st.b.cols - st.q - 2
        /\ st.p > 0 => Get(st.b, st.p - 1, st.p) = Zero
        /\ \A i \in (st.b.cols - st.q - 1)..(st.b.cols - 2) : Get(st.b, i, i + 1) = Zero

\* C21: whenever svd invokes golub_kahan_svd_step(b, u, v, p, q), q <= n - 2 and
\* p <= n - q - 2, every super-diagonal entry with index in p..n-q-2 is not
\* negligible, and the entries at index p - 1 and at n-q-1..n-2 are zero
C21_StepPreconditions ==
    pc = "svd_step" =>
        /\ st.q <= st.b.cols - 2
        /\ st.p <= st.b.cols - st.q - 2
        /\ \A i \in SvdWindow(st) : ~NegligibleSuperDiagonal(st.b, i)
        /\ st.p > 0 => Get(st.b, st.p - 1, st.p) = Zero
        /\ \A i \in (st.b.cols - st.q - 1)..(st.b.cols - 2) : Get(st.b, i, i + 1) = Zero

\* the column count of the working (tall or square) matrix of self
WorkingCols(self) == MinI(self.rows, self.cols)

\* C22: in bidiagonal_decomp a right reflector is built at step k exactly when
\* k + 2 < n, whichever way the crate is built; an input with n = 1 and a
\* non-zero entry does not fail or panic
C22_RightReflectorSteps ==
    Done("bidiagonal_decomp") =>
        /\ \A k \in 0..(WorkingCols(inp) - 1) : \A checked \in BOOLEAN :
               bidiag_wants_right(WorkingCols(inp), k, checked) <=> (k + 2 < WorkingCols(inp))
        /\ (WorkingCols(inp) = 1 /\ \E c \in 1..Len(inp.data) : inp.data[c] # Zero)
               => out.tag = "Ok"

\* for n >= 2 the test of the code is k + 2 < n: it holds on every behaviour
RightReflectorFromTwoColumns ==
    (Done("bidiagonal_decomp") /\ WorkingCols(inp) >= 2) =>
        \A k \in 0..(WorkingCols(inp) - 1) : \A checked \in BOOLEAN :
            bidiag_wants_right(WorkingCols(inp), k, checked) <=> (k + 2 < WorkingCols(inp))

RECURSIVE IsPowerOfTwoInt(_)
IsPowerOfTwoInt(k) == k = 1 \/ (k > 1 /\ k % 2 = 0 /\ IsPowerOfTwoInt(k \div 2))

\* f is 2^k for an integer k
IsPowerOfTwo(f) ==
    \/ f[2] = 1 /\ IsPowerOfTwoInt(f[1])
    \/ f[1] = 1 /\ f[2] >= 1 /\ IsPowerOfTwoInt(f[2])

\* for the squared norms c2 and r2 and the outcome t = (c' * c', r' * r', f) of
\* the two scaling loops: c' = c * f, r' = r / f, f is a power of two and
\* r' / 2 <= c' < 2 * r'
ScaledWithinRadix(c2, r2, t) ==
    /\ IsPowerOfTwo(t[3])
    /\ t[1] = QMul(c2, QMul(t[3], t[3]))
    /\ t[2] = QDiv(r2, QMul(t[3], t[3]))
    /\ QLe(t[2], QMul(Four, t[1]))
    /\ QLt(t[1], QMul(Four, t[2]))

\* the scaling loops at index i of h
ScaledAt(h, i) ==
    ScaledWithinRadix(bal_col_sq(h, h.rows, i), bal_row_sq(h, h.rows, i),
                      bal_down(bal_up(<<bal_col_sq(h, h.rows, i), bal_row_sq(h, h.rows, i),
                                        One>>)))

\* when balance_matrix has returned, the scaling loops end within the radix at
\* every index and a further sweep rescales nothing: it holds on every behaviour
BalancedWhenReturned ==
    (pc = "francis" /\ st.iter = 0) =>
        /\ \A i \in 0..(st.h.rows - 1) : ScaledAt(st.h, i)
        /\ bal_sweep(st.h, st.h.rows, 0, TRUE).converged

\* C23: for every square matrix handed to balance_matrix the two scaling loops
\* terminate at every index with c' = c * f, r' = r / f, f a power of two and
\* r' / 2 <= c' < 2 * r', and the outer loop reaches a sweep that rescales
\* nothing: the call never stays in balance_matrix
C23_BalanceTerminates ==
    /\ pc # "balance_matrix"
    /\ BalancedWhenReturned

\* C24: no operation of the trait returns an Err of kind InvalidArg
C24_NoInvalidArg == (pc = "done" /\ out.tag = "Err") => out.kind # "InvalidArg"

\* qr_decomp has failed at a step whose sub-column is empty, where
\* make_householder raises InvalidArg, and has returned DecompFailure
C24_Witness ==
    /\ Done("qr_decomp") /\ out.tag = "Err" /\ out.kind = "DecompFailure"
    /\ qr_lower_slice(st.r, inp.rows, st.i) = <<>>
    /\ make_householder(qr_lower_slice(st.r, inp.rows, st.i)).kind = "InvalidArg"

\* every entry of the column x is zero
ZeroColumn(x) == \A k \in 1..Len(x) : x[k] = Zero

BuilderDone == Done("make_householder") \/ Done("make_householder_vec")

\* C25: make_householder and make_householder_vec return Err(InvalidArg) for an
\* empty column, Err(DecompFailure) for a non-empty column exactly when it is
\* all zero, which is exactly when alpha = x[0] + sign(x[0]) * ||x|| is zero,
\* and no error otherwise (Ok, or the rounded value of an Ok)
C25_BuilderErrors ==
    BuilderDone =>
        /\ Len(inp.data) = 0 <=> (out.tag = "Err" /\ out.kind = "InvalidArg")
        /\ (Len(inp.data) > 0 /\ ZeroColumn(inp.data))
               <=> (out.tag = "Err" /\ out.kind = "DecompFailure")
        /\ out.tag \in {"Ok", "Err", "Rounded"}
        /\ (Len(inp.data) > 0 /\ ExactRoot(dot(inp.data, inp.data)))
               => (householder_denom(inp.data, dot(inp.data, inp.data)) = Zero
                       <=> ZeroColumn(inp.data))

\* a column with a zero first entry and a non-zero later entry has succeeded
C25_Witness ==
    /\ Done("make_householder") /\ Len(inp.data) = 2
    /\ inp.data[1] = Zero /\ inp.data[2] # Zero
    /\ out.tag = "Ok"

\* (-sign(x[0]) * ||x||, 0, ..., 0)
ReflectedColumn(x) ==
    [k \in 1..Len(x) |->
        IF k = 1 THEN QNeg(QMul(signum(x[1]), sqrt(dot(x, x)))) ELSE Zero]

\* x - 2 * w * (w^T x)
RankOneUpdate(x, w) ==
    [k \in 1..Len(x) |-> QSub(x[k], QMul(QMul(Two, w[k]), dot(w, x)))]

\* C26: for a non-zero column x the matrix H of make_householder(x) is
\* symmetric, H * H = I and H * x = (-sign(x[0]) * ||x||, 0, ..., 0); the unit
\* vector w of make_householder_vec(x) gives the same column as x - 2 w (w^T x)
C26_Reflector ==
    /\ (Done("make_householder") /\ out.tag = "Ok")
           => /\ transpose(out.h) = out.h
              /\ MatMul(out.h, out.h) = identity(Len(inp.data))
              /\ MatMul(out.h, inp).data = ReflectedColumn(inp.data)
    /\ (Done("make_householder_vec") /\ out.tag = "Ok")
           => RankOneUpdate(inp.data, out.w) = ReflectedColumn(inp.data)

\* the unit vector of a column with two non-zero entries has been built
C26_Witness ==
    /\ Done("make_householder_vec") /\ out.tag = "Ok"
    /\ Len(inp.data) >= 2 /\ inp.data[1] # Zero /\ inp.data[2] # Zero

\* the reflector of a column with three non-zero entries has been built
HouseholderOfFullColumn ==
    /\ Done("make_householder") /\ out.tag = "Ok"
    /\ Len(inp.data) = 3 /\ \A k \in 1..3 : inp.data[k] # Zero
====
